---- MODULE Spec2Model ----
(***************************************************************************)
(* The invocation engine of the statefun Rust SDK: the function registry,  *)
(* the missing-state check, the handler's Effects accumulator and the      *)
(* bridge that turns one ToFunction batch into one FromFunction response.  *)
(***************************************************************************)
EXTENDS Integers, Sequences, FiniteSets, TLC

(* ---------------------------- bounds ----------------------------------- *)
\* queued invocations of a batch
MaxInvocations == 2
\* calls of Effects operations by the handlers of a batch
MaxEffects == 2

(* ------------------------ typenames and codecs ------------------------- *)
IntTypename == "io.statefun.types/int"
StringTypename == "io.statefun.types/string"

\* wire tag of field 1 of IntWrapper (sfixed32: field number 1, wire type 5)
IntWrapperTag == 13

\* the values that handlers write and snapshots hold
I32Values == {1, 2}

\* Serializable<i32>::serialize: IntWrapper.write_to_bytes(); proto3 leaves a
\* field holding the default value (0) off the wire, any other value is the
\* tag followed by four little-endian bytes.
serialize(v) ==
    IF v = 0 THEN <<>>
    ELSE << IntWrapperTag, v % 256, (v \div 256) % 256,
            (v \div 65536) % 256, (v \div 16777216) % 256 >>

\* a parse that drops the sign bit of the four bytes
deserialize_unsigned(buffer) ==
    IF buffer = <<>> THEN [ok |-> TRUE, value |-> 0]
    ELSE IF Len(buffer) = 5 /\ buffer[1] = IntWrapperTag
         THEN [ok |-> TRUE,
               value |-> buffer[2] + 256 * buffer[3] + 65536 * buffer[4]
                         + 16777216 * (buffer[5] % 128)]
         ELSE [ok |-> FALSE, value |-> 0]

\* Serializable<i32>::deserialize: IntWrapper::parse_from_bytes; the empty
\* buffer parses to the default message, a truncated field is an error. The
\* four bytes are a two's complement number: the top bit is the sign.
deserialize(buffer) ==
    IF buffer = <<>> THEN [ok |-> TRUE, value |-> 0]
    ELSE IF Len(buffer) = 5 /\ buffer[1] = IntWrapperTag
         THEN [ok |-> TRUE,
               value |-> buffer[2] + 256 * buffer[3] + 65536 * buffer[4]
                         + 16777216 * (IF buffer[5] >= 128 THEN buffer[5] - 256
                                       ELSE buffer[5])]
         ELSE [ok |-> FALSE, value |-> 0]

\* the two bytes of a 16-bit word, low byte first (to_le_bytes); a negative
\* word is in two's complement
le_bytes(word) == << word % 256, (word \div 256) % 256 >>

\* the 16-bit word of two bytes, low byte first
from_le_bytes(low, high) == low + 256 * high

\* the same word read as a signed number
from_le_bytes_signed(low, high) ==
    low + 256 * (IF high >= 128 THEN high - 256 ELSE high)

\* Serializable<bool>::serialize: BooleanWrapper.write_to_bytes(); field 1 is
\* a varint, false is the default and is left off the wire
serialize_bool(v) == IF v THEN << 8, 1 >> ELSE <<>>

\* Serializable<bool>::deserialize: BooleanWrapper::parse_from_bytes; any
\* non-zero varint of one byte is true
deserialize_bool(buffer) ==
    IF buffer = <<>> THEN [ok |-> TRUE, value |-> FALSE]
    ELSE IF Len(buffer) = 2 /\ buffer[1] = 8 /\ buffer[2] < 128
         THEN [ok |-> TRUE, value |-> buffer[2] # 0]
         ELSE [ok |-> FALSE, value |-> FALSE]

\* An i64 is held as its four 16-bit words, most significant first; the
\* first word is signed (-32768 .. 32767), the others are 0 .. 65535.
i64_from_words(w3, w2, w1, w0) == << w3, w2, w1, w0 >>

\* Serializable<i64>::serialize: LongWrapper.write_to_bytes(); field 1 is a
\* 64-bit fixed field (tag 9), eight bytes low byte first, 0 is left off
serialize_i64(v) ==
    IF v = i64_from_words(0, 0, 0, 0) THEN <<>>
    ELSE << 9 >> \o le_bytes(v[4]) \o le_bytes(v[3]) \o le_bytes(v[2])
                 \o le_bytes(v[1])

\* Serializable<i64>::deserialize: LongWrapper::parse_from_bytes
deserialize_i64(buffer) ==
    IF buffer = <<>> THEN [ok |-> TRUE, value |-> i64_from_words(0, 0, 0, 0)]
    ELSE IF Len(buffer) = 9 /\ buffer[1] = 9
         THEN [ok |-> TRUE,
               value |-> i64_from_words(from_le_bytes_signed(buffer[8], buffer[9]),
                                        from_le_bytes(buffer[6], buffer[7]),
                                        from_le_bytes(buffer[4], buffer[5]),
                                        from_le_bytes(buffer[2], buffer[3]))]
         ELSE [ok |-> FALSE, value |-> i64_from_words(0, 0, 0, 0)]

\* An f32 is held as the fields of its bits: sign (0 or 1), exponent
\* (0 .. 255) and mantissa (0 .. 2^23 - 1).
f32_from_bits(sign, exponent, mantissa) ==
    [width |-> 32, sign |-> sign, exponent |-> exponent,
     mantissa |-> << mantissa >>]

\* An f64 likewise: exponent 0 .. 2047, and the 52 bits of the mantissa as
\* words of 20, 16 and 16 bits, most significant first.
f64_from_bits(sign, exponent, m2, m1, m0) ==
    [width |-> 64, sign |-> sign, exponent |-> exponent,
     mantissa |-> << m2, m1, m0 >>]

\* f32::is_nan, f64::is_nan: the exponent is all ones and the mantissa is not 0
is_nan(v) ==
    /\ v.exponent = (IF v.width = 32 THEN 255 ELSE 2047)
    /\ \E i \in DOMAIN v.mantissa : v.mantissa[i] # 0

\* v == 0.0, which positive and negative zero both satisfy
is_zero(v) ==
    v.exponent = 0 /\ \A i \in DOMAIN v.mantissa : v.mantissa[i] = 0

\* PartialEq for f32 and f64 (the == of Ok(w) == Ok(v)): a NaN equals
\* nothing, the two zeros are equal, any other value equals only itself
float_eq(w, v) ==
    /\ ~is_nan(w)
    /\ ~is_nan(v)
    /\ \/ w = v
       \/ is_zero(w) /\ is_zero(v)

\* Serializable<f32>::serialize: FloatWrapper.write_to_bytes(); field 1 is a
\* 32-bit fixed field (tag 13) holding to_bits() low byte first; a value that
\* compares equal to 0.0 is the default and is left off the wire
serialize_f32(v) ==
    IF is_zero(v) THEN <<>>
    ELSE << 13, v.mantissa[1] % 256, (v.mantissa[1] \div 256) % 256,
            (v.mantissa[1] \div 65536) + 128 * (v.exponent % 2),
            (v.exponent \div 2) + 128 * v.sign >>

\* Serializable<f32>::deserialize: FloatWrapper::parse_from_bytes; the empty
\* buffer is the default 0.0
deserialize_f32(buffer) ==
    IF buffer = <<>> THEN [ok |-> TRUE, value |-> f32_from_bits(0, 0, 0)]
    ELSE IF Len(buffer) = 5 /\ buffer[1] = 13
         THEN [ok |-> TRUE,
               value |-> f32_from_bits(buffer[5] \div 128,
                                       2 * (buffer[5] % 128) + buffer[4] \div 128,
                                       buffer[2] + 256 * buffer[3]
                                       + 65536 * (buffer[4] % 128))]
         ELSE [ok |-> FALSE, value |-> f32_from_bits(0, 0, 0)]

\* Serializable<f64>::serialize: DoubleWrapper.write_to_bytes(); field 1 is a
\* 64-bit fixed field (tag 9) holding to_bits() low byte first
serialize_f64(v) ==
    IF is_zero(v) THEN <<>>
    ELSE << 9 >> \o le_bytes(v.mantissa[3]) \o le_bytes(v.mantissa[2])
                 \o << v.mantissa[1] % 256,
                       (v.mantissa[1] \div 256) % 256,
                       (v.mantissa[1] \div 65536) + 16 * (v.exponent % 16),
                       (v.exponent \div 16) + 128 * v.sign >>

\* Serializable<f64>::deserialize: DoubleWrapper::parse_from_bytes
deserialize_f64(buffer) ==
    IF buffer = <<>> THEN [ok |-> TRUE, value |-> f64_from_bits(0, 0, 0, 0, 0)]
    ELSE IF Len(buffer) = 9 /\ buffer[1] = 9
         THEN [ok |-> TRUE,
               value |-> f64_from_bits(buffer[9] \div 128,
                                       16 * (buffer[9] % 128) + buffer[8] \div 16,
                                       buffer[6] + 256 * buffer[7]
                                       + 65536 * (buffer[8] % 16),
                                       from_le_bytes(buffer[4], buffer[5]),
                                       from_le_bytes(buffer[2], buffer[3]))]
         ELSE [ok |-> FALSE, value |-> f64_from_bits(0, 0, 0, 0, 0)]

to_typed_value(typename, value) ==
    [typename |-> typename, has_value |-> TRUE, value |-> value]

\* TypedValue::new: the default message, all fields unset
NoTypedValue == [typename |-> "", has_value |-> FALSE, value |-> <<>>]

(* ----------------------------- value specs ----------------------------- *)
Duration_from_secs(s) == [secs |-> s, nanos |-> 0]

never == [expiration_type |-> "None", time_to_live |-> Duration_from_secs(0)]

Expiration_new(expiration_type, time_to_live) ==
    [expiration_type |-> expiration_type, time_to_live |-> time_to_live]

ValueSpecBase_new(name, typename, expiration) ==
    [name |-> name, typename |-> typename, expiration |-> expiration]

\* Into<ValueSpecBase> for ValueSpec<T>: the base spec the handler's typed
\* spec stands for. ValueSpecBase::new takes name, typename and expiration,
\* and the registry's specs, which are made by this conversion, carry the
\* declared expiration into invoke_from_proto's ExpirationSpec.
into(value_spec) ==
    ValueSpecBase_new(value_spec.name, value_spec.typename, value_spec.expiration)

\* the typed specs (ValueSpec<T>) that handlers and registrations use
ValueSpecs ==
    { [name |-> "foo", typename |-> IntTypename, expiration |-> never],
      [name |-> "foo", typename |-> IntTypename,
       expiration |-> Expiration_new("AfterWrite", Duration_from_secs(5))],
      [name |-> "bar", typename |-> IntTypename, expiration |-> never] }

Names == {"foo", "bar"}

(* ------------------------------ maps ----------------------------------- *)
EmptyMap == [k \in {} |-> 0]

\* HashMap::insert
Insert(map, key, value) ==
    [k \in (DOMAIN map) \cup {key} |-> IF k = key THEN value ELSE map[k]]

RECURSIVE parse_persisted_values_from(_, _, _)
parse_persisted_values_from(persisted_values, i, result) ==
    IF i > Len(persisted_values) THEN result
    ELSE parse_persisted_values_from(persisted_values, i + 1,
            Insert(result,
                   ValueSpecBase_new(persisted_values[i].state_name,
                                     persisted_values[i].state_value.typename,
                                     never),
                   persisted_values[i].state_value.value))

parse_persisted_values(persisted_values) ==
    parse_persisted_values_from(persisted_values, 1, EmptyMap)

(* ----------------------------- addresses ------------------------------- *)
FunctionType_new(namespace, name) == [namespace |-> namespace, name |-> name]

Address_new(function_type, id) == [function_type |-> function_type, id |-> id]

Address_into_proto(address) ==
    [namespace |-> address.function_type.namespace,
     type |-> address.function_type.name, id |-> address.id]

Address_from_proto(proto_address) ==
    Address_new(FunctionType_new(proto_address.namespace, proto_address.type),
                proto_address.id)

NoProtoAddress == [namespace |-> "", type |-> "", id |-> ""]

(* ------------------------------ context -------------------------------- *)
\* mutant: the context takes the caller for the callee and the callee for
\* the caller
Context_new_swapped(state, self_address, caller_address) ==
    [state |-> state, self_address |-> caller_address,
     caller_address |-> self_address]

\* Context::new: the context borrows the batch's target and the invocation's
\* caller as they came off the wire
Context_new(state, self_address, caller_address) ==
    [state |-> state, self_address |-> self_address,
     caller_address |-> caller_address]

\* Context::self_address
self_address(context) == Address_from_proto(context.self_address)

\* Context::caller_address
caller_address(context) == Address_from_proto(context.caller_address)

NoneValue == [some |-> FALSE, ok |-> FALSE, value |-> 0]

\* Context::get_state: HashMap::get with the spec converted to its base
get_state(context, value_spec) ==
    IF into(value_spec) \in DOMAIN context.state
    THEN LET deserialized == deserialize(context.state[into(value_spec)])
         IN  [some |-> TRUE, ok |-> deserialized.ok, value |-> deserialized.value]
    ELSE NoneValue

(* ------------------------------ inputs --------------------------------- *)
FunctionTypes ==
    { FunctionType_new("namespace", "foo"), FunctionType_new("namespace", "bar") }

\* the register_fn calls of the start-up code
Registrations ==
    { [function_type |-> FunctionType_new("namespace", "foo"),
       value_specs |->
          << [name |-> "foo", typename |-> IntTypename,
              expiration |-> Expiration_new("AfterWrite", Duration_from_secs(5))],
             [name |-> "bar", typename |-> IntTypename, expiration |-> never] >>,
       function |-> "f"],
      [function_type |-> FunctionType_new("namespace", "bar"),
       value_specs |->
          << [name |-> "foo", typename |-> IntTypename, expiration |-> never] >>,
       function |-> "g"] }

\* an all-empty address: a message that comes from an ingress has no caller
EmptyAddress == Address_new(FunctionType_new("", ""), "")

Callers == { EmptyAddress, Address_new(FunctionType_new("namespace", "bar"), "caller") }

\* TypedValue of a snapshot cell: allocated but never written (blank typename,
\* no bytes) or written (the typename of the write and its bytes)
SnapshotValues ==
    { [typename |-> "", has_value |-> FALSE, value |-> <<>>],
      [typename |-> IntTypename, has_value |-> TRUE, value |-> serialize(1)] }

PersistedValues ==
    { [state_name |-> n, state_value |-> v] : n \in Names, v \in SnapshotValues }

\* the argument of the k-th queued invocation
Arguments == { to_typed_value(StringTypename, <<10, 1, 102>>) }

Invocations ==
    { [caller |-> Address_into_proto(c), argument |-> a] :
        c \in Callers, a \in Arguments }

SeqsUpTo(S, n) == UNION { [1..k -> S] : k \in 0..n }

(* ------------------------------ effects -------------------------------- *)
Effects_new ==
    [invocations |-> <<>>, delayed_invocations |-> <<>>,
     cancelled_delayed_invocations |-> <<>>, egress_messages |-> <<>>,
     state_updates |-> <<>>]

Update(value_spec, state) == [kind |-> "Update", spec |-> value_spec, state |-> state]
Delete(value_spec) == [kind |-> "Delete", spec |-> value_spec, state |-> <<>>]

(* ------------------------------- state --------------------------------- *)
VARIABLES
    functions,                \* FunctionRegistry.functions
    pc,                       \* "startup", "idle", "loop", "handler", "done"
    to_function,              \* the ToFunction that is being processed
    next_invocation,          \* position of the loop over the batch's invocations
    persisted_values,         \* the working state map of the batch
    coalesced_state_updates,  \* last state update per spec
    invocation_response,      \* the response under construction
    context,                  \* Context of the running handler
    effects,                  \* Effects of the running handler
    result,                   \* what invoke_from_proto returned
    handler_calls,            \* history: the handler calls of this batch
    last_effect,              \* history: name -> last state effect of the batch
    writing,                  \* history: spec -> value last written, this call
    written,                  \* history: the same for the previous call
    effect_calls,             \* history: calls of Effects operations, this batch
    message,                  \* Message handed to the running handler
    get_result,               \* what Message::get returned to the running handler
    message_calls,            \* history: the message effects of this batch, in call order
    mutex,                    \* the Mutex around the registry: holder and poison flag
    in_flight,                \* the requests in flight: position, body, answer
    round_trip,               \* a value on its way through its type's codec
    wire_millis               \* a Duration on its way into the fields of the response

vars == << functions, pc, to_function, next_invocation, persisted_values,
           coalesced_state_updates, invocation_response, context, effects,
           result, handler_calls, last_effect, writing, written,
           effect_calls, message, get_result, message_calls, mutex,
           in_flight, round_trip, wire_millis >>

\* the values that are on their way through a conversion
conversions == << round_trip, wire_millis >>

\* what the transport keeps around the registry
transport == << mutex, in_flight >>

NoToFunction ==
    [target |-> NoProtoAddress, state |-> <<>>, invocations |-> <<>>]

NoContext == Context_new(EmptyMap, NoProtoAddress, NoProtoAddress)

InvocationResponse_new ==
    [outgoing_messages |-> <<>>, delayed_invocations |-> <<>>,
     outgoing_egresses |-> <<>>, state_mutations |-> <<>>]

NoResult ==
    [kind |-> "none", invocation_result |-> InvocationResponse_new,
     missing_values |-> <<>>, function_type |-> FunctionType_new("", "")]

\* no Message::get has been called
NoGetResult ==
    [called |-> FALSE, requested |-> "", ok |-> FALSE, value |-> <<>>,
     error |-> ""]

\* the requests that the coordinator has in flight at one time
RequestIds == { "r1", "r2" }

\* Mutex::new: nobody holds the lock and it is not poisoned
Mutex_new == [holder |-> "", poisoned |-> FALSE]

\* bytes on the wire: an encoded ToFunction or FromFunction, or bytes that
\* are no protobuf message
NoBody == [wire |-> "", to_function |-> NoToFunction, from_function |-> NoResult]

\* no HyperTransportError
NoError == [variant |-> "", function_type |-> FunctionType_new("", "")]

\* handle_request has not returned
NoAnswer == [kind |-> "none", status |-> 0, body |-> NoBody, error |-> NoError]

\* a request that has not arrived; pc is the place of its handle_request:
\* "none", "decoded", "locked", "answered"
NoRequest ==
    [pc |-> "none", body |-> NoBody, to_function |-> NoToFunction,
     answer |-> NoAnswer]

batch_state ==
    << to_function, next_invocation, persisted_values, coalesced_state_updates,
       invocation_response, context, effects, result, handler_calls,
       last_effect, writing, written, effect_calls, message, get_result,
       message_calls >>

\* no value is on its way through a codec; pc is the place of the round trip:
\* "none", "value", "serialized", "deserialized"
NoRoundTrip ==
    [pc |-> "none", T |-> [typename |-> ""], value |-> <<>>, buffer |-> <<>>,
     result |-> [ok |-> FALSE, value |-> <<>>]]

\* FunctionRegistry::new and the transport around it, before any request
FunctionRegistry_new ==
    /\ functions = EmptyMap
    /\ pc = "startup"
    /\ to_function = NoToFunction
    /\ next_invocation = 1
    /\ persisted_values = EmptyMap
    /\ coalesced_state_updates = EmptyMap
    /\ invocation_response = InvocationResponse_new
    /\ context = NoContext
    /\ effects = Effects_new
    /\ result = NoResult
    /\ handler_calls = <<>>
    /\ last_effect = EmptyMap
    /\ writing = EmptyMap
    /\ written = EmptyMap
    /\ effect_calls = 0
    /\ message = NoTypedValue
    /\ get_result = NoGetResult
    /\ message_calls = <<>>
    /\ mutex = Mutex_new
    /\ in_flight = [r \in RequestIds |-> NoRequest]

\* no Duration is on its way into a response; a field that is not set is <<>>
NoWireMillis ==
    [duration |-> [secs |-> <<>>, nanos |-> 0], delay_in_ms |-> <<>>,
     expire_after_millis |-> <<>>]

Init ==
    /\ FunctionRegistry_new
    /\ round_trip = NoRoundTrip
    /\ wire_millis = NoWireMillis

(* --------------------------- function registry ------------------------- *)
\* mutant: the registry keeps one handler per namespace
register_fn_by_namespace(function_type, value_specs, function) ==
    /\ pc = "startup"
    /\ functions' =
          [k \in (DOMAIN functions) \cup {function_type} |->
              IF k.namespace = function_type.namespace
              THEN [value_specs |-> value_specs, function |-> function]
              ELSE functions[k]]
    /\ UNCHANGED << pc, batch_state, transport, conversions >>

\* FunctionRegistry::register_fn: HashMap::insert under the function type
register_fn(function_type, value_specs, function) ==
    /\ pc = "startup"
    /\ functions' = Insert(functions, function_type,
                           [value_specs |-> value_specs, function |-> function])
    /\ UNCHANGED << pc, batch_state, transport, conversions >>

\* Transport::run: the registry is handed over and requests are served
run ==
    /\ pc = "startup"
    /\ pc' = "idle"
    /\ UNCHANGED << functions, batch_state, transport, conversions >>

\* mutant: the check compares the whole spec, not the name
is_missing_by_key(state, value_spec) ==
    into(value_spec) \notin DOMAIN state

\* the check of FnInvokableFunction::invoke: a declared spec is missing when
\* no key of the context's state carries its name
is_missing(state, value_spec) ==
    \A context_spec \in DOMAIN state : value_spec.name # context_spec.name

\* mutant: the search stops at the first missing spec
missing_states_first_only(state, value_specs) ==
    LET missing(value_spec) == is_missing(state, value_spec)
        all == SelectSeq(value_specs, missing)
    IN  IF all = <<>> THEN <<>> ELSE << all[1] >>

\* mutant: `found` is not reset between the declared specs
missing_states_sticky_found(state, value_specs) ==
    LET indices == { i \in 1..Len(value_specs) :
                       \A j \in 1..i : is_missing(state, value_specs[j]) }
    IN  [i \in 1..Cardinality(indices) |-> value_specs[i]]

missing_states(state, value_specs) ==
    LET missing(value_spec) == is_missing(state, value_spec)
    IN  SelectSeq(value_specs, missing)

(* --------------------------- invocation bridge ------------------------- *)
\* Duration::as_millis() as i64 for the durations whose milliseconds fit the
\* integers of this model (less than 2^31 ms, about 24 days)
Duration_as_millis(d) == d.secs * 1000 + d.nanos \div 1000000

\* Duration::new for any Duration: secs is a u64, held as its four 16-bit
\* words, most significant first; nanos is less than 10^9
Duration_new(secs, nanos) == [secs |-> secs, nanos |-> nanos]

\* Duration::as_millis: secs * 1000 + nanos / 1_000_000 as a u128, held as
\* eight 16-bit words, most significant first. A u64 times 1000 is less than
\* 2^74, so the three top words are 0.
as_millis(d) ==
    LET t0 == d.secs[4] * 1000 + d.nanos \div 1000000
        t1 == d.secs[3] * 1000 + t0 \div 65536
        t2 == d.secs[2] * 1000 + t1 \div 65536
        t3 == d.secs[1] * 1000 + t2 \div 65536
    IN  << 0, 0, 0, t3 \div 65536,
           t3 % 65536, t2 % 65536, t1 % 65536, t0 % 65536 >>

\* `as i64` of a u128: the low 64 bits, read as a two's complement number
as_i64(u128) ==
    i64_from_words(IF u128[5] >= 32768 THEN u128[5] - 65536 ELSE u128[5],
                   u128[6], u128[7], u128[8])

\* the same, were a time to live of zero to stand for no expiration
expiration_spec_zero_is_none(expiration) ==
    IF \/ expiration.expiration_type = "None"
       \/ Duration_as_millis(expiration.time_to_live) = 0
    THEN [mode |-> "NONE", expire_after_millis |-> 0]
    ELSE [mode |-> IF expiration.expiration_type = "AfterInvoke"
                   THEN "AFTER_INVOKE" ELSE "AFTER_WRITE",
          expire_after_millis |-> Duration_as_millis(expiration.time_to_live)]

\* the ExpirationSpec that invoke_from_proto derives from an Expiration
expiration_spec(expiration) ==
    IF expiration.expiration_type = "None"
    THEN [mode |-> "NONE", expire_after_millis |-> 0]
    ELSE [mode |-> IF expiration.expiration_type = "AfterInvoke"
                   THEN "AFTER_INVOKE" ELSE "AFTER_WRITE",
          expire_after_millis |-> Duration_as_millis(expiration.time_to_live)]

persisted_value_spec(value_spec) ==
    [state_name |-> value_spec.name, type_typename |-> value_spec.typename,
     expiration_spec |-> expiration_spec(value_spec.expiration)]

incomplete_invocation_context(states) ==
    [kind |-> "incomplete_invocation_context",
     invocation_result |-> InvocationResponse_new,
     missing_values |-> [i \in 1..Len(states) |-> persisted_value_spec(states[i])],
     function_type |-> FunctionType_new("", "")]

\* mutant: a batch for an unknown function type is answered with an empty
\* InvocationResponse
FunctionNotFound_as_response(target_function) ==
    [kind |-> "invocation_result", invocation_result |-> InvocationResponse_new,
     missing_values |-> <<>>, function_type |-> FunctionType_new("", "")]

\* InvocationError::FunctionNotFound
FunctionNotFound(target_function) ==
    [kind |-> "FunctionNotFound", invocation_result |-> InvocationResponse_new,
     missing_values |-> <<>>, function_type |-> target_function]

invocation_result(response) ==
    [kind |-> "invocation_result", invocation_result |-> response,
     missing_values |-> <<>>, function_type |-> FunctionType_new("", "")]

Remove(map, key) == [k \in (DOMAIN map) \ {key} |-> map[k]]

\* mutant: a Delete removes the key from the working state map
apply_state_update_removing(maps, state_update) ==
    IF state_update.kind = "Delete"
    THEN [persisted_state |-> Remove(maps.persisted_state, state_update.spec),
          coalesced_state |->
              Insert(maps.coalesced_state, state_update.spec,
                     Delete(state_update.spec))]
    ELSE [persisted_state |->
              Insert(maps.persisted_state, state_update.spec, state_update.state),
          coalesced_state |->
              Insert(maps.coalesced_state, state_update.spec,
                     Update(state_update.spec, state_update.state))]

\* mutant: a Delete removes every entry of that name from the working state map
apply_state_update_removing_name(maps, state_update) ==
    IF state_update.kind = "Delete"
    THEN [persisted_state |->
              [k \in { key \in DOMAIN maps.persisted_state :
                         key.name # state_update.spec.name } |->
                  maps.persisted_state[k]],
          coalesced_state |->
              Insert(maps.coalesced_state, state_update.spec,
                     Delete(state_update.spec))]
    ELSE [persisted_state |->
              Insert(maps.persisted_state, state_update.spec, state_update.state),
          coalesced_state |->
              Insert(maps.coalesced_state, state_update.spec,
                     Update(state_update.spec, state_update.state))]

\* mutant: an Update reaches the coalesced map only, not the working state map
apply_state_update_coalesce_only(maps, state_update) ==
    IF state_update.kind = "Delete"
    THEN [persisted_state |->
              Insert(maps.persisted_state, state_update.spec, <<>>),
          coalesced_state |->
              Insert(maps.coalesced_state, state_update.spec,
                     Delete(state_update.spec))]
    ELSE [persisted_state |-> maps.persisted_state,
          coalesced_state |->
              Insert(maps.coalesced_state, state_update.spec,
                     Update(state_update.spec, state_update.state))]

\* mutant: the first state update of a spec stays in the coalesced map
apply_state_update_first_wins(maps, state_update) ==
    [persisted_state |->
         Insert(maps.persisted_state, state_update.spec, state_update.state),
     coalesced_state |->
         IF state_update.spec \in DOMAIN maps.coalesced_state
         THEN maps.coalesced_state
         ELSE Insert(maps.coalesced_state, state_update.spec,
                     IF state_update.kind = "Delete"
                     THEN Delete(state_update.spec)
                     ELSE Update(state_update.spec, state_update.state))]

\* one arm of the match in update_state: a Delete keeps the key and clears
\* the value, an Update stores the bytes; both replace the coalesced entry
apply_state_update(maps, state_update) ==
    IF state_update.kind = "Delete"
    THEN [persisted_state |->
              Insert(maps.persisted_state, state_update.spec, <<>>),
          coalesced_state |->
              Insert(maps.coalesced_state, state_update.spec,
                     Delete(state_update.spec))]
    ELSE [persisted_state |->
              Insert(maps.persisted_state, state_update.spec, state_update.state),
          coalesced_state |->
              Insert(maps.coalesced_state, state_update.spec,
                     Update(state_update.spec, state_update.state))]

\* update_state of the bridge: every state update of the call goes into the
\* working state map and into the coalesced map, under its spec
RECURSIVE update_state_from(_, _, _)
update_state_from(maps, state_updates, i) ==
    IF i > Len(state_updates) THEN maps
    ELSE update_state_from(apply_state_update(maps, state_updates[i]),
                           state_updates, i + 1)

update_state(persisted_state, coalesced_state, state_updates) ==
    update_state_from([persisted_state |-> persisted_state,
                       coalesced_state |-> coalesced_state], state_updates, 1)

\* mutant: the messages of a call are forwarded last to first
serialize_invocation_messages_reversed(invocation_messages) ==
    [i \in 1..Len(invocation_messages) |->
        [target |-> Address_into_proto(
                        invocation_messages[Len(invocation_messages) + 1 - i][1]),
         argument |-> to_typed_value(
                        invocation_messages[Len(invocation_messages) + 1 - i][2],
                        invocation_messages[Len(invocation_messages) + 1 - i][3])]]

serialize_invocation_messages(invocation_messages) ==
    [i \in 1..Len(invocation_messages) |->
        [target |-> Address_into_proto(invocation_messages[i][1]),
         argument |-> to_typed_value(invocation_messages[i][2],
                                     invocation_messages[i][3])]]

\* mutant: the delay is forwarded in whole seconds
serialize_delayed_invocation_messages_secs(delayed_invocations) ==
    [i \in 1..Len(delayed_invocations) |->
        [is_cancellation_request |-> FALSE,
         target |-> Address_into_proto(delayed_invocations[i].address),
         delay_in_ms |-> delayed_invocations[i].delay.secs,
         cancellation_token |-> delayed_invocations[i].cancellation_token,
         argument |-> to_typed_value(delayed_invocations[i].typename,
                                     delayed_invocations[i].bytes)]]

serialize_delayed_invocation_messages(delayed_invocations) ==
    [i \in 1..Len(delayed_invocations) |->
        [is_cancellation_request |-> FALSE,
         target |-> Address_into_proto(delayed_invocations[i].address),
         delay_in_ms |-> Duration_as_millis(delayed_invocations[i].delay),
         cancellation_token |-> delayed_invocations[i].cancellation_token,
         argument |-> to_typed_value(delayed_invocations[i].typename,
                                     delayed_invocations[i].bytes)]]

serialize_cancelled_delayed_messages(cancelled_delayed_invocations) ==
    [i \in 1..Len(cancelled_delayed_invocations) |->
        [is_cancellation_request |-> TRUE, target |-> NoProtoAddress,
         delay_in_ms |-> 0,
         cancellation_token |-> cancelled_delayed_invocations[i],
         argument |-> NoTypedValue]]

serialize_egress_messages(egress_messages) ==
    [i \in 1..Len(egress_messages) |->
        [egress_namespace |-> egress_messages[i][1].namespace,
         egress_type |-> egress_messages[i][1].name,
         argument |-> to_typed_value(egress_messages[i][2], egress_messages[i][3])]]

\* serialize_state_updates: one PersistedValueMutation per state update
serialize_state_updates(state_updates) ==
    [i \in 1..Len(state_updates) |->
        IF state_updates[i].kind = "Delete"
        THEN [mutation_type |-> "DELETE",
              state_name |-> state_updates[i].spec.name,
              state_value |-> NoTypedValue]
        ELSE [mutation_type |-> "MODIFY",
              state_name |-> state_updates[i].spec.name,
              state_value |-> to_typed_value(state_updates[i].spec.typename,
                                             state_updates[i].state)]]

\* the orders in which HashMap::drain may hand out the values of a map
drain(map) ==
    { [i \in 1..Cardinality(DOMAIN map) |-> map[order[i]]] :
        order \in { o \in [1..Cardinality(DOMAIN map) -> DOMAIN map] :
                      \A i, j \in 1..Cardinality(DOMAIN map) :
                          i # j => o[i] # o[j] } }

\* the snapshots the coordinator sends: one PersistedValue per cell name
Snapshots ==
    { state \in SeqsUpTo(PersistedValues, Cardinality(Names)) :
        \A i, j \in 1..Len(state) :
            i # j => state[i].state_name # state[j].state_name }

\* the batches of at most MaxInvocations invocations sent by these callers
ToFunctions(callers) ==
    { [target |-> Address_into_proto(Address_new(function_type, "id")),
       state |-> state, invocations |-> invocations] :
        function_type \in FunctionTypes,
        state \in Snapshots,
        invocations \in SeqsUpTo({ invocation \in Invocations :
                                     Address_from_proto(invocation.caller)
                                         \in callers },
                                 MaxInvocations) }

\* mutant: the target is looked up in the registry before the loop
invoke_from_proto_dispatching(request) ==
    /\ pc = "idle"
    /\ to_function' = request
    /\ next_invocation' = 1
    /\ persisted_values' = parse_persisted_values(request.state)
    /\ coalesced_state_updates' = EmptyMap
    /\ invocation_response' = InvocationResponse_new
    /\ IF Address_from_proto(request.target).function_type \in DOMAIN functions
       THEN pc' = "loop" /\ UNCHANGED result
       ELSE /\ pc' = "done"
            /\ result' = FunctionNotFound(
                             Address_from_proto(request.target).function_type)
    /\ UNCHANGED << functions, context, effects, handler_calls,
                    last_effect, writing, written, effect_calls, message,
                    get_result, message_calls >>
    /\ UNCHANGED << transport, conversions >>

\* invoke_from_proto up to its loop: the working state map is parsed from the
\* snapshot, the coalesced map and the response start empty
invoke_from_proto(request) ==
    /\ pc = "idle"
    /\ pc' = "loop"
    /\ to_function' = request
    /\ next_invocation' = 1
    /\ persisted_values' = parse_persisted_values(request.state)
    /\ coalesced_state_updates' = EmptyMap
    /\ invocation_response' = InvocationResponse_new
    /\ UNCHANGED << functions, context, effects, result, handler_calls,
                    last_effect, writing, written, effect_calls, message,
                    get_result, message_calls >>
    /\ UNCHANGED << transport, conversions >>

\* mutant: the loop takes the queued invocations from the end of the batch
invoke_reversed ==
    /\ pc = "loop"
    /\ next_invocation <= Len(to_function.invocations)
    /\ LET invocation == to_function.invocations[Len(to_function.invocations)
                                                    - next_invocation + 1]
           new_context == Context_new(persisted_values, to_function.target,
                                      invocation.caller)
           target_function == self_address(new_context).function_type
       IN  IF target_function \notin DOMAIN functions
           THEN /\ result' = FunctionNotFound(target_function)
                /\ pc' = "done"
                /\ UNCHANGED << context, effects, handler_calls, message >>
           ELSE LET missing == missing_states(new_context.state,
                                   functions[target_function].value_specs)
                IN  IF missing # <<>>
                    THEN /\ result' = incomplete_invocation_context(missing)
                         /\ pc' = "done"
                         /\ UNCHANGED << context, effects, handler_calls,
                                         message >>
                    ELSE /\ pc' = "handler"
                         /\ context' = new_context
                         /\ effects' = Effects_new
                         /\ message' = invocation.argument
                         /\ handler_calls' = Append(handler_calls,
                               [function |-> functions[target_function].function,
                                self_address |-> self_address(new_context),
                                caller_address |-> caller_address(new_context),
                                argument |-> invocation.argument])
                         /\ UNCHANGED result
    /\ UNCHANGED << functions, to_function, next_invocation, persisted_values,
                    coalesced_state_updates, invocation_response, last_effect,
                    writing, written, effect_calls, get_result, message_calls >>
    /\ UNCHANGED << transport, conversions >>

\* one turn of the loop up to the call of the user function:
\* FunctionRegistry::invoke and the check of FnInvokableFunction::invoke
invoke ==
    /\ pc = "loop"
    /\ next_invocation <= Len(to_function.invocations)
    /\ LET invocation == to_function.invocations[next_invocation]
           new_context == Context_new(persisted_values, to_function.target,
                                      invocation.caller)
           target_function == self_address(new_context).function_type
       IN  IF target_function \notin DOMAIN functions
           THEN /\ result' = FunctionNotFound(target_function)
                /\ pc' = "done"
                /\ UNCHANGED << context, effects, handler_calls, message >>
           ELSE LET missing == missing_states(new_context.state,
                                   functions[target_function].value_specs)
                IN  IF missing # <<>>
                    THEN /\ result' = incomplete_invocation_context(missing)
                         /\ pc' = "done"
                         /\ UNCHANGED << context, effects, handler_calls,
                                         message >>
                    ELSE /\ pc' = "handler"
                         /\ context' = new_context
                         /\ effects' = Effects_new
                         /\ message' = invocation.argument
                         /\ handler_calls' = Append(handler_calls,
                               [function |-> functions[target_function].function,
                                self_address |-> self_address(new_context),
                                caller_address |-> caller_address(new_context),
                                argument |-> invocation.argument])
                         /\ UNCHANGED result
    /\ UNCHANGED << functions, to_function, next_invocation, persisted_values,
                    coalesced_state_updates, invocation_response, last_effect,
                    writing, written, effect_calls, get_result, message_calls >>
    /\ UNCHANGED << transport, conversions >>

(* ------------------------- the handler's Message ----------------------- *)
\* StringWrapper::parse_from_bytes: the empty buffer is the empty string, a
\* length-delimited field 1 is the value, anything else is an error
deserialize_string(buffer) ==
    IF buffer = <<>> THEN [ok |-> TRUE, value |-> <<>>, error |-> ""]
    ELSE IF Len(buffer) >= 2 /\ buffer[1] = 10 /\ buffer[2] = Len(buffer) - 2
         THEN [ok |-> TRUE, value |-> SubSeq(buffer, 3, Len(buffer)), error |-> ""]
         ELSE [ok |-> FALSE, value |-> <<>>, error |-> "protobuf error"]

\* the types T that a handler asks Message::get for: String, and a user type
\* that wraps a string value under its own typename
Types ==
    { [typename |-> StringTypename], [typename |-> "user/bar"] }

\* the {:?} formatting of a string: the text between double quotes
Debug(string) == "\"" \o string \o "\""

\* Message::is
is(typed_value, T) == typed_value.typename = T.typename

\* Message::get
get(typed_value, T) ==
    IF ~is(typed_value, T)
    THEN [called |-> TRUE, ok |-> FALSE, value |-> <<>>,
          error |-> "Incompatible types. Expected: " \o Debug(T.typename)
                    \o " Payload: " \o Debug(typed_value.typename)]
    ELSE LET deserialized == deserialize_string(typed_value.value)
         IN  [called |-> TRUE, ok |-> deserialized.ok,
              value |-> deserialized.value, error |-> deserialized.error]

\* the handler reads its message as a T
Message_get(T) ==
    /\ pc = "handler"
    /\ get_result' = [requested |-> T.typename] @@ get(message, T)
    /\ UNCHANGED << functions, pc, to_function, next_invocation, persisted_values,
                    coalesced_state_updates, invocation_response, context,
                    effects, result, handler_calls, last_effect, writing,
                    written, effect_calls, message, message_calls >>
    /\ UNCHANGED << transport, conversions >>

(* ------------------------- the handler's Effects ----------------------- *)
\* StringWrapper.write_to_bytes: an empty string is left off the wire
serialize_string(chars) ==
    IF chars = <<>> THEN <<>> ELSE << 10, Len(chars) >> \o chars

StringValues == { <<102>>, <<103>> }

Addresses == { Address_new(FunctionType_new("namespace", "foo"), "id") }

EgressIdentifiers == { [namespace |-> "namespace", name |-> "name"] }

\* Duration::from_millis
Duration_from_millis(millis) ==
    [secs |-> millis \div 1000, nanos |-> (millis % 1000) * 1000000]

Delays == { Duration_from_secs(5), Duration_from_millis(1500) }

CancellationTokens == { "cancel-token", "other-token" }

\* the types whose values handlers hand to their Effects: the built-in i32
\* and String, and a user type in the manner of MyStringValue, whose
\* serializer hands on the error of write_to_bytes
i32 == [typename |-> IntTypename]

String == [typename |-> StringTypename]

MyStringValue == [typename |-> "my-string-value/string-value"]

\* the values that write_to_bytes refuses for MyStringValue
Unwritable == { <<103>> }

\* the other built-in types
bool == [typename |-> "io.statefun.types/bool"]

i64 == [typename |-> "io.statefun.types/long"]

f32 == [typename |-> "io.statefun.types/float"]

f64 == [typename |-> "io.statefun.types/double"]

\* <T as Serializable<T>>::serialize: Ok(bytes) or Err(message)
T_serialize(T, value) ==
    IF T = i32
    THEN [ok |-> TRUE, bytes |-> serialize(value), error |-> ""]
    ELSE IF T = String
    THEN [ok |-> TRUE, bytes |-> serialize_string(value), error |-> ""]
    ELSE IF T = bool
    THEN [ok |-> TRUE, bytes |-> serialize_bool(value), error |-> ""]
    ELSE IF T = i64
    THEN [ok |-> TRUE, bytes |-> serialize_i64(value), error |-> ""]
    ELSE IF T = f32
    THEN [ok |-> TRUE, bytes |-> serialize_f32(value), error |-> ""]
    ELSE IF T = f64
    THEN [ok |-> TRUE, bytes |-> serialize_f64(value), error |-> ""]
    ELSE IF value \in Unwritable
         THEN [ok |-> FALSE, bytes |-> <<>>, error |-> "write_to_bytes failed"]
         ELSE [ok |-> TRUE, bytes |-> serialize_string(value), error |-> ""]

\* <T as Serializable<T>>::deserialize of the built-in types: Ok(value) or Err
T_deserialize(T, buffer) ==
    LET parsed == IF T = i32 THEN deserialize(buffer)
                  ELSE IF T = bool THEN deserialize_bool(buffer)
                  ELSE IF T = i64 THEN deserialize_i64(buffer)
                  ELSE IF T = f32 THEN deserialize_f32(buffer)
                  ELSE IF T = f64 THEN deserialize_f64(buffer)
                  ELSE deserialize_string(buffer)
    IN  [ok |-> parsed.ok, value |-> parsed.value]

\* history: an operation of the Effects returned Err(error) to the handler
returned_err(op, T, value, error) ==
    Append(message_calls,
           [op |-> "Err", call |-> op, invocation |-> next_invocation,
            typename |-> T.typename, value |-> value, error |-> error])

handler_unchanged ==
    << functions, pc, to_function, next_invocation, persisted_values,
       coalesced_state_updates, invocation_response, context, result,
       handler_calls, written, message, get_result, mutex, in_flight,
       conversions >>

\* the handler is running and may call one more operation of its Effects
running ==
    /\ pc = "handler"
    /\ effect_calls < MaxEffects
    /\ effect_calls' = effect_calls + 1

\* Effects::send, were it to push before it looks at the serializer's result
send_pushing_first(T, address, value) ==
    /\ running
    /\ LET serialized == T_serialize(T, value)
       IN  /\ effects' = [effects EXCEPT !.invocations =
                             Append(@, << address, T.typename, serialized.bytes >>)]
           /\ message_calls' =
                 IF serialized.ok
                 THEN Append(message_calls,
                             [op |-> "send", invocation |-> next_invocation,
                              address |-> address, typename |-> T.typename,
                              value |-> value])
                 ELSE returned_err("send", T, value, serialized.error)
    /\ UNCHANGED << handler_unchanged, last_effect, writing >>

\* Effects::send
send(T, address, value) ==
    /\ running
    /\ LET serialized == T_serialize(T, value)
       IN  IF serialized.ok
           THEN /\ effects' = [effects EXCEPT !.invocations =
                                  Append(@, << address, T.typename,
                                              serialized.bytes >>)]
                /\ message_calls' =
                      Append(message_calls,
                             [op |-> "send", invocation |-> next_invocation,
                              address |-> address, typename |-> T.typename,
                              value |-> value])
           ELSE /\ message_calls' = returned_err("send", T, value, serialized.error)
                /\ UNCHANGED effects
    /\ UNCHANGED << handler_unchanged, last_effect, writing >>

\* Effects::send_after
send_after(T, address, delay, cancellation_token, value) ==
    /\ running
    /\ LET serialized == T_serialize(T, value)
       IN  IF serialized.ok
           THEN /\ effects' = [effects EXCEPT !.delayed_invocations =
                                  Append(@, [address |-> address, delay |-> delay,
                                             cancellation_token |-> cancellation_token,
                                             typename |-> T.typename,
                                             bytes |-> serialized.bytes])]
                /\ message_calls' =
                      Append(message_calls,
                             [op |-> "send_after", invocation |-> next_invocation,
                              address |-> address, delay |-> delay,
                              cancellation_token |-> cancellation_token,
                              typename |-> T.typename, value |-> value])
           ELSE /\ message_calls' =
                      returned_err("send_after", T, value, serialized.error)
                /\ UNCHANGED effects
    /\ UNCHANGED << handler_unchanged, last_effect, writing >>

\* Effects::cancel_delayed_message
cancel_delayed_message(cancellation_token) ==
    /\ running
    /\ effects' = [effects EXCEPT !.cancelled_delayed_invocations =
                      Append(@, cancellation_token)]
    /\ message_calls' = Append(message_calls,
                              [op |-> "cancel_delayed_message",
                               invocation |-> next_invocation,
                               cancellation_token |-> cancellation_token])
    /\ UNCHANGED << handler_unchanged, last_effect, writing >>

\* Effects::egress
egress(T, identifier, value) ==
    /\ running
    /\ LET serialized == T_serialize(T, value)
       IN  IF serialized.ok
           THEN /\ effects' = [effects EXCEPT !.egress_messages =
                                  Append(@, << identifier, T.typename,
                                              serialized.bytes >>)]
                /\ message_calls' =
                      Append(message_calls,
                             [op |-> "egress", invocation |-> next_invocation,
                              identifier |-> identifier, typename |-> T.typename,
                              value |-> value])
           ELSE /\ message_calls' = returned_err("egress", T, value, serialized.error)
                /\ UNCHANGED effects
    /\ UNCHANGED << handler_unchanged, last_effect, writing >>

\* history of the state effects of a batch, per cell name: the last effect,
\* the kind of the effect it followed and the specs the cell was addressed by
record_effect(history, state_update) ==
    LET name == state_update.spec.name
    IN  Insert(history, name,
               [kind |-> state_update.kind, spec |-> state_update.spec,
                state |-> state_update.state,
                replaced |-> IF name \in DOMAIN history
                             THEN history[name].kind ELSE "none",
                specs |-> (IF name \in DOMAIN history
                           THEN history[name].specs ELSE {})
                          \cup {state_update.spec}])

\* Effects::delete_state, were it to drop the cell's earlier updates
Effects_delete_state_coalescing(value_spec) ==
    /\ running
    /\ LET other(state_update) == state_update.spec # into(value_spec)
       IN  effects' = [effects EXCEPT !.state_updates =
                          Append(SelectSeq(@, other), Delete(into(value_spec)))]
    /\ last_effect' = record_effect(last_effect, Delete(into(value_spec)))
    /\ writing' = [k \in (DOMAIN writing) \ {into(value_spec)} |-> writing[k]]
    /\ UNCHANGED << handler_unchanged, message_calls >>

\* Effects::delete_state
Effects_delete_state(value_spec) ==
    /\ running
    /\ effects' = [effects EXCEPT !.state_updates = Append(@, Delete(into(value_spec)))]
    /\ last_effect' = record_effect(last_effect, Delete(into(value_spec)))
    /\ writing' = [k \in (DOMAIN writing) \ {into(value_spec)} |-> writing[k]]
    /\ UNCHANGED << handler_unchanged, message_calls >>

\* Effects::update_state, were the Context a live view of the cell: the
\* write shows in the state that get_state reads
Effects_update_state_writing_through(value_spec, value) ==
    /\ running
    /\ LET bytes == T_serialize([typename |-> value_spec.typename], value).bytes
       IN  /\ effects' = [effects EXCEPT !.state_updates =
                             Append(@, Update(into(value_spec), bytes))]
           /\ last_effect' = record_effect(last_effect,
                                           Update(into(value_spec), bytes))
           /\ context' = [context EXCEPT
                            !.state = Insert(@, into(value_spec), bytes)]
    /\ writing' = Insert(writing, into(value_spec), value)
    /\ UNCHANGED << functions, pc, to_function, next_invocation,
                    persisted_values, coalesced_state_updates,
                    invocation_response, result, handler_calls, written,
                    message, get_result, message_calls, mutex, in_flight,
                    conversions >>

\* Effects::update_state; T is the type of the ValueSpec<T>
Effects_update_state(value_spec, value) ==
    /\ running
    /\ LET T == [typename |-> value_spec.typename]
           serialized == T_serialize(T, value)
       IN  IF serialized.ok
           THEN /\ effects' = [effects EXCEPT !.state_updates =
                                  Append(@, Update(into(value_spec),
                                                   serialized.bytes))]
                /\ last_effect' =
                      record_effect(last_effect,
                                    Update(into(value_spec), serialized.bytes))
                /\ writing' = Insert(writing, into(value_spec), value)
                /\ UNCHANGED message_calls
           ELSE /\ message_calls' =
                      returned_err("update_state", T, value, serialized.error)
                /\ UNCHANGED << effects, last_effect, writing >>
    /\ UNCHANGED handler_unchanged

\* mutant: the delayed sends of a call are put before the entries of the
\* earlier calls of the batch
handler_return_delayed_first ==
    /\ pc = "handler"
    /\ LET maps == update_state(persisted_values, coalesced_state_updates,
                                effects.state_updates)
       IN  /\ invocation_response' =
                 [invocation_response EXCEPT
                    !.outgoing_messages =
                        @ \o serialize_invocation_messages(effects.invocations),
                    !.delayed_invocations =
                        serialize_delayed_invocation_messages(
                            effects.delayed_invocations)
                        \o @
                        \o serialize_cancelled_delayed_messages(
                               effects.cancelled_delayed_invocations),
                    !.outgoing_egresses =
                        @ \o serialize_egress_messages(effects.egress_messages)]
           /\ persisted_values' = maps.persisted_state
           /\ coalesced_state_updates' = maps.coalesced_state
    /\ pc' = "loop"
    /\ next_invocation' = next_invocation + 1
    /\ context' = NoContext
    /\ effects' = Effects_new
    /\ written' = writing
    /\ writing' = EmptyMap
    /\ message' = NoTypedValue
    /\ get_result' = NoGetResult
    /\ UNCHANGED << functions, to_function, result, handler_calls, last_effect,
                    effect_calls, message_calls >>
    /\ UNCHANGED << transport, conversions >>

\* the rest of the loop's turn, once the user function has returned its
\* Effects: they are serialized into the response and applied to the state
handler_return ==
    /\ pc = "handler"
    /\ LET maps == update_state(persisted_values, coalesced_state_updates,
                                effects.state_updates)
       IN  /\ invocation_response' =
                 [invocation_response EXCEPT
                    !.outgoing_messages =
                        @ \o serialize_invocation_messages(effects.invocations),
                    !.delayed_invocations =
                        @ \o serialize_delayed_invocation_messages(
                                 effects.delayed_invocations)
                          \o serialize_cancelled_delayed_messages(
                                 effects.cancelled_delayed_invocations),
                    !.outgoing_egresses =
                        @ \o serialize_egress_messages(effects.egress_messages)]
           /\ persisted_values' = maps.persisted_state
           /\ coalesced_state_updates' = maps.coalesced_state
    /\ pc' = "loop"
    /\ next_invocation' = next_invocation + 1
    /\ context' = NoContext
    /\ effects' = Effects_new
    /\ written' = writing
    /\ writing' = EmptyMap
    /\ message' = NoTypedValue
    /\ get_result' = NoGetResult
    /\ UNCHANGED << functions, to_function, result, handler_calls, last_effect,
                    effect_calls, message_calls >>
    /\ UNCHANGED << transport, conversions >>

\* mutant: every cell of the working state map is sent back as a mutation
serialize_response_echo ==
    /\ pc = "loop"
    /\ next_invocation > Len(to_function.invocations)
    /\ \E state_values \in
             drain([k \in DOMAIN persisted_values |->
                      IF k \in DOMAIN coalesced_state_updates
                      THEN coalesced_state_updates[k]
                      ELSE Update(k, persisted_values[k])]) :
          /\ invocation_response' =
                [invocation_response EXCEPT
                   !.state_mutations = @ \o serialize_state_updates(state_values)]
          /\ result' = invocation_result(invocation_response')
    /\ coalesced_state_updates' = EmptyMap
    /\ pc' = "done"
    /\ UNCHANGED << functions, to_function, next_invocation, persisted_values,
                    context, effects, handler_calls, last_effect, writing, written,
                    effect_calls, message, get_result, message_calls >>
    /\ UNCHANGED << transport, conversions >>

\* the end of invoke_from_proto: the coalesced map is drained into the
\* response's state mutations
serialize_response ==
    /\ pc = "loop"
    /\ next_invocation > Len(to_function.invocations)
    /\ \E state_values \in drain(coalesced_state_updates) :
          /\ invocation_response' =
                [invocation_response EXCEPT
                   !.state_mutations = @ \o serialize_state_updates(state_values)]
          /\ result' = invocation_result(invocation_response')
    /\ coalesced_state_updates' = EmptyMap
    /\ pc' = "done"
    /\ UNCHANGED << functions, to_function, next_invocation, persisted_values,
                    context, effects, handler_calls, last_effect, writing, written,
                    effect_calls, message, get_result, message_calls >>
    /\ UNCHANGED << transport, conversions >>

\* handle_request answers and the next request can be taken
handle_request ==
    /\ pc = "done"
    /\ pc' = "idle"
    /\ to_function' = NoToFunction
    /\ next_invocation' = 1
    /\ persisted_values' = EmptyMap
    /\ coalesced_state_updates' = EmptyMap
    /\ invocation_response' = InvocationResponse_new
    /\ context' = NoContext
    /\ effects' = Effects_new
    /\ result' = NoResult
    /\ handler_calls' = <<>>
    /\ last_effect' = EmptyMap
    /\ writing' = EmptyMap
    /\ written' = EmptyMap
    /\ effect_calls' = 0
    /\ message' = NoTypedValue
    /\ get_result' = NoGetResult
    /\ message_calls' = <<>>
    /\ UNCHANGED functions
    /\ UNCHANGED << transport, conversions >>

\* the registry, the bridge and the transport around them, serving these
\* requests
Serve(requests) ==
    \/ \E registration \in Registrations :
          register_fn(registration.function_type, registration.value_specs,
                      registration.function)
    \/ run
    \/ \E request \in requests : invoke_from_proto(request)
    \/ invoke
    \/ handler_return
    \/ serialize_response
    \/ handle_request

\* the same for the batches sent by these callers
Engine(callers) == Serve(ToFunctions(callers))

\* handlers that read and write state, with batches that come from an ingress
Next ==
    \/ Engine({EmptyAddress})
    \/ \E value_spec \in ValueSpecs : Effects_delete_state(value_spec)
    \/ \E value_spec \in ValueSpecs, value \in I32Values :
          Effects_update_state(value_spec, value)

Spec == Init /\ [][Next]_vars

\* the arguments that callers send: a string, and a value of a user type
TypedArguments ==
    { to_typed_value(StringTypename, <<10, 1, 102>>),
      to_typed_value("user/foo", <<10, 1, 103>>) }

\* a snapshot in which every cell is written, as the coordinator sends it
\* once the state is allocated
WrittenSnapshot ==
    << [state_name |-> "foo",
        state_value |-> to_typed_value(IntTypename, serialize(1))],
       [state_name |-> "bar",
        state_value |-> to_typed_value(IntTypename, serialize(1))] >>

\* batches of invocations that differ in caller and argument
CallBatches ==
    { [target |-> Address_into_proto(Address_new(function_type, "id")),
       state |-> WrittenSnapshot, invocations |-> invocations] :
        function_type \in FunctionTypes,
        invocations \in SeqsUpTo({ [caller |-> Address_into_proto(c),
                                    argument |-> a] :
                                      c \in Callers, a \in TypedArguments },
                                 MaxInvocations) }

\* batches from an ingress for functions whose state is allocated
MessageBatches ==
    { request \in ToFunctions({EmptyAddress}) : request.state = WrittenSnapshot }

\* handlers that send messages, delayed messages, cancellations and egress
\* records
NextMessages ==
    \/ Serve(MessageBatches)
    \/ \E address \in Addresses, value \in StringValues :
          send(String, address, value)
    \/ \E address \in Addresses, delay \in Delays, token \in CancellationTokens,
          value \in StringValues : send_after(String, address, delay, token, value)
    \/ \E token \in CancellationTokens : cancel_delayed_message(token)
    \/ \E identifier \in EgressIdentifiers, value \in StringValues :
          egress(String, identifier, value)

SpecMessages == Init /\ [][NextMessages]_vars

\* handlers that read their message and write one cell, with batches whose
\* invocations differ in caller and argument
NextCalls ==
    \/ Serve(CallBatches)
    \/ \E T \in Types : Message_get(T)
    \/ \E value \in I32Values :
          Effects_update_state([name |-> "foo", typename |-> IntTypename,
                                expiration |-> never], value)

SpecCalls == Init /\ [][NextCalls]_vars

\* batches of at most one invocation
EffectBatches ==
    { request \in MessageBatches : Len(request.invocations) <= 1 }

\* the values that handlers hand to their Effects, each with its type
TypedValues ==
    { << String, <<102>> >>, << MyStringValue, <<102>> >>,
      << MyStringValue, <<103>> >> }

\* a cell of i32 and a cell of the user type
IntCell == [name |-> "foo", typename |-> IntTypename, expiration |-> never]

MyCell ==
    [name |-> "bar", typename |-> MyStringValue.typename, expiration |-> never]

\* handlers that call every operation of their Effects, with values whose
\* serializer succeeds and values whose serializer fails
NextEffects ==
    \/ Serve(EffectBatches)
    \/ \E address \in Addresses, typed \in TypedValues :
          send(typed[1], address, typed[2])
    \/ \E address \in Addresses, typed \in TypedValues :
          send_after(typed[1], address, Duration_from_secs(5), "cancel-token",
                     typed[2])
    \/ cancel_delayed_message("cancel-token")
    \/ \E identifier \in EgressIdentifiers, typed \in TypedValues :
          egress(typed[1], identifier, typed[2])
    \/ \E value_spec \in {IntCell, MyCell} : Effects_delete_state(value_spec)
    \/ \E value \in I32Values : Effects_update_state(IntCell, value)
    \/ \E value \in StringValues : Effects_update_state(MyCell, value)

SpecEffects == Init /\ [][NextEffects]_vars

\* register_fn calls that come after those of Registrations: for a function
\* type that may be registered already, with cells that expire after an
\* invocation and after a write, one of them with a time to live of zero
LaterRegistrations ==
    { [function_type |-> FunctionType_new("namespace", "foo"),
       value_specs |->
          << [name |-> "foo", typename |-> IntTypename,
              expiration |-> Expiration_new("AfterInvoke",
                                            Duration_from_millis(1500))],
             [name |-> "bar", typename |-> IntTypename,
              expiration |-> Expiration_new("AfterWrite", Duration_from_secs(0))] >>,
       function |-> "h"] }

\* start-up code that registers any of these functions, in any order
NextRegistry ==
    \/ Engine({EmptyAddress})
    \/ \E registration \in LaterRegistrations :
          register_fn(registration.function_type, registration.value_specs,
                      registration.function)

SpecRegistry == Init /\ [][NextRegistry]_vars

(* ------------------------------ transport ------------------------------ *)
\* ToFunction::write_to_bytes, on the coordinator's side
ToFunction_write_to_bytes(request) ==
    [wire |-> "ToFunction", to_function |-> request, from_function |-> NoResult]

\* FromFunction::write_to_bytes
FromFunction_write_to_bytes(from_function) ==
    [wire |-> "FromFunction", to_function |-> NoToFunction,
     from_function |-> from_function]

\* protobuf::parse_from_reader::<ToFunction>
parse_from_reader(body) ==
    IF body.wire = "ToFunction"
    THEN [ok |-> TRUE, value |-> body.to_function]
    ELSE [ok |-> FALSE, value |-> NoToFunction]

\* HyperTransportError::ProtobufError
ProtobufError == [variant |-> "ProtobufError", function_type |-> FunctionType_new("", "")]

\* HyperTransportError::InvocationError, from InvocationError
InvocationError(error) ==
    [variant |-> "InvocationError", function_type |-> error.function_type]

\* Err(error) of handle_request: the service hands hyper an error, no Response
Err(error) == [kind |-> "Err", status |-> 0, body |-> NoBody, error |-> error]

\* Ok(Response::builder().header(..).body(..)): the builder's status is 200 OK
Response_builder(body) ==
    [kind |-> "Ok", status |-> 200, body |-> body, error |-> NoError]

\* the task of the request died in a panic: nothing is returned to hyper
Panicked == [kind |-> "panic", status |-> 0, body |-> NoBody, error |-> NoError]

\* the cell that the user function counts its invocations in
seen_count_spec ==
    [name |-> "foo", typename |-> IntTypename,
     expiration |-> Expiration_new("AfterWrite", Duration_from_secs(5))]

\* a login message, and a message of a type the user function does not expect
UserLogin ==
    [caller |-> Address_into_proto(EmptyAddress),
     argument |-> to_typed_value(StringTypename, <<10, 1, 102>>)]

Unexpected ==
    [caller |-> Address_into_proto(EmptyAddress),
     argument |-> to_typed_value("user/foo", <<10, 1, 103>>)]

\* the bodies that arrive: batches of logins for the user function, a batch
\* with an unexpected message, and bytes that are no ToFunction
Bodies ==
    { ToFunction_write_to_bytes(
          [target |-> Address_into_proto(
                          Address_new(FunctionType_new("namespace", "foo"), "id")),
           state |-> WrittenSnapshot, invocations |-> invocations]) :
        invocations \in SeqsUpTo({UserLogin}, MaxInvocations) \cup {<< Unexpected >>} }
    \cup { [wire |-> "garbage", to_function |-> NoToFunction,
            from_function |-> NoResult] }

\* what handle_request leaves unchanged outside the call of invoke_from_proto
engine == << functions, pc, batch_state >>

\* handle_request up to the lock: the body is read and decoded
handle_request_decode(r, body) ==
    /\ pc # "startup"
    /\ in_flight[r].pc = "none"
    /\ LET to_function_ == parse_from_reader(body)
       IN  in_flight' =
              [in_flight EXCEPT ![r] =
                  IF to_function_.ok
                  THEN [pc |-> "decoded", body |-> body,
                        to_function |-> to_function_.value, answer |-> NoAnswer]
                  ELSE [pc |-> "answered", body |-> body,
                        to_function |-> NoToFunction,
                        answer |-> Err(ProtobufError)]]
    /\ UNCHANGED << engine, mutex, conversions >>

\* function_registry.lock(), were it to hand out the guard while another
\* request holds it
handle_request_lock_shared(r) ==
    /\ in_flight[r].pc = "decoded"
    /\ IF mutex.poisoned
       THEN /\ in_flight' = [in_flight EXCEPT ![r].pc = "answered",
                                              ![r].answer = Panicked]
            /\ UNCHANGED mutex
       ELSE /\ mutex' = [mutex EXCEPT !.holder = r]
            /\ in_flight' = [in_flight EXCEPT ![r].pc = "locked"]
    /\ UNCHANGED << engine, conversions >>

\* function_registry.try_lock().unwrap() in the place of lock().unwrap()
handle_request_try_lock(r) ==
    /\ in_flight[r].pc = "decoded"
    /\ IF mutex.poisoned \/ mutex.holder # ""
       THEN /\ in_flight' = [in_flight EXCEPT ![r].pc = "answered",
                                              ![r].answer = Panicked]
            /\ UNCHANGED mutex
       ELSE /\ mutex' = [mutex EXCEPT !.holder = r]
            /\ in_flight' = [in_flight EXCEPT ![r].pc = "locked"]
    /\ UNCHANGED << engine, conversions >>

\* function_registry.lock().unwrap(): the request waits until nobody holds
\* the lock; unwrap panics when the lock is poisoned
handle_request_lock(r) ==
    /\ in_flight[r].pc = "decoded"
    /\ mutex.holder = ""
    /\ IF mutex.poisoned
       THEN /\ in_flight' = [in_flight EXCEPT ![r].pc = "answered",
                                              ![r].answer = Panicked]
            /\ UNCHANGED mutex
       ELSE /\ mutex' = [mutex EXCEPT !.holder = r]
            /\ in_flight' = [in_flight EXCEPT ![r].pc = "locked"]
    /\ UNCHANGED << engine, conversions >>

\* the call of invoke_from_proto, were the decoded request kept in a place
\* that the requests share
handle_request_invoke_shared(r) ==
    /\ in_flight[r].pc = "locked"
    /\ \E other \in RequestIds :
          /\ in_flight[other].pc \in {"decoded", "locked"}
          /\ invoke_from_proto(in_flight[other].to_function)

\* the call of invoke_from_proto with the decoded request, the lock held
handle_request_invoke(r) ==
    /\ in_flight[r].pc = "locked"
    /\ invoke_from_proto(in_flight[r].to_function)

\* the locals of invoke_from_proto go out of scope
drop_locals ==
    /\ pc' = "idle"
    /\ to_function' = NoToFunction
    /\ next_invocation' = 1
    /\ persisted_values' = EmptyMap
    /\ coalesced_state_updates' = EmptyMap
    /\ invocation_response' = InvocationResponse_new
    /\ context' = NoContext
    /\ effects' = Effects_new
    /\ result' = NoResult
    /\ handler_calls' = <<>>
    /\ last_effect' = EmptyMap
    /\ writing' = EmptyMap
    /\ written' = EmptyMap
    /\ effect_calls' = 0
    /\ message' = NoTypedValue
    /\ get_result' = NoGetResult
    /\ message_calls' = <<>>

\* handle_request, were the guard to outlive an Err of invoke_from_proto
handle_request_respond_holding_on_error(r) ==
    /\ pc = "done"
    /\ in_flight[r].pc = "locked"
    /\ mutex.holder = r
    /\ mutex' = IF result.kind = "FunctionNotFound" THEN mutex
                 ELSE [mutex EXCEPT !.holder = ""]
    /\ in_flight' =
          [in_flight EXCEPT
             ![r].pc = "answered",
             ![r].answer =
                IF result.kind = "FunctionNotFound"
                THEN Err(InvocationError(result))
                ELSE Response_builder(FromFunction_write_to_bytes(result))]
    /\ drop_locals
    /\ UNCHANGED << functions, conversions >>

\* invoke_from_proto has returned: its locals and the guard are dropped, an
\* Err leaves handle_request through `?`, a FromFunction is encoded into the
\* Response
handle_request_respond(r) ==
    /\ pc = "done"
    /\ in_flight[r].pc = "locked"
    /\ mutex.holder = r
    /\ mutex' = [mutex EXCEPT !.holder = ""]
    /\ in_flight' =
          [in_flight EXCEPT
             ![r].pc = "answered",
             ![r].answer =
                IF result.kind = "FunctionNotFound"
                THEN Err(InvocationError(result))
                ELSE Response_builder(FromFunction_write_to_bytes(result))]
    /\ drop_locals
    /\ UNCHANGED << functions, conversions >>

\* the user function of the greeter example: it counts its invocations in a
\* cell; the message is of the expected type
user ==
    /\ is(message, String)
    /\ effects = Effects_new
    /\ LET seen_count == get_state(context, seen_count_spec)
       IN  Effects_update_state(seen_count_spec,
                                IF seen_count.some THEN seen_count.value + 1
                                ELSE 1)

\* the user function returns the Effects it has filled
user_return ==
    /\ effects # Effects_new
    /\ handler_return

\* the user function panics on a message of another type: the stack of
\* handle_request unwinds, which drops the locals of invoke_from_proto and
\* the guard, and the guard poisons the lock
user_panic ==
    /\ pc = "handler"
    /\ ~ is(message, String)
    /\ drop_locals
    /\ mutex' = [holder |-> "", poisoned |-> TRUE]
    /\ in_flight' = [r \in RequestIds |->
                        IF in_flight[r].pc = "locked"
                        THEN [in_flight[r] EXCEPT !.pc = "answered",
                                                  !.answer = Panicked]
                        ELSE in_flight[r]]
    /\ UNCHANGED << functions, conversions >>

\* the server: requests arrive in parallel, each runs handle_request, and the
\* registered function is the user function
NextTransport ==
    \/ \E registration \in Registrations :
          register_fn(registration.function_type, registration.value_specs,
                      registration.function)
    \/ run
    \/ \E r \in RequestIds, body \in Bodies : handle_request_decode(r, body)
    \/ \E r \in RequestIds : handle_request_lock(r)
    \/ \E r \in RequestIds : handle_request_invoke(r)
    \/ invoke
    \/ user
    \/ user_panic
    \/ user_return
    \/ serialize_response
    \/ \E r \in RequestIds : handle_request_respond(r)

SpecTransport == Init /\ [][NextTransport]_vars

\* the bodies of a worker whose handlers return: batches of logins for the
\* user function, with the cells allocated and with a snapshot that lacks
\* them, and bytes that are no ToFunction
ReturningBodies ==
    { ToFunction_write_to_bytes(
          [target |-> Address_into_proto(
                          Address_new(FunctionType_new("namespace", "foo"), "id")),
           state |-> state, invocations |-> invocations]) :
        state \in { WrittenSnapshot, <<>> },
        invocations \in SeqsUpTo({UserLogin}, MaxInvocations) }
    \cup { [wire |-> "garbage", to_function |-> NoToFunction,
            from_function |-> NoResult] }

\* the same server with handlers that return
NextReturning ==
    \/ \E registration \in Registrations :
          register_fn(registration.function_type, registration.value_specs,
                      registration.function)
    \/ run
    \/ \E r \in RequestIds, body \in ReturningBodies :
          handle_request_decode(r, body)
    \/ \E r \in RequestIds : handle_request_lock(r)
    \/ \E r \in RequestIds : handle_request_invoke(r)
    \/ invoke
    \/ user
    \/ user_return
    \/ serialize_response
    \/ \E r \in RequestIds : handle_request_respond(r)

\* The runtime's worker threads keep polling the task of every request; a
\* thread that waits in lock() gets the lock after the holder has dropped its
\* guard; the loop of invoke_from_proto and the user function keep running.
\* Start-up and the arrival of requests are up to the environment.
Fairness ==
    /\ \A r \in RequestIds :
          WF_vars(handle_request_lock(r) \/ handle_request_invoke(r)
                  \/ handle_request_respond(r))
    /\ WF_vars(invoke \/ user \/ user_return \/ serialize_response)

SpecReturning == Init /\ [][NextReturning]_vars /\ Fairness

(* --------------------------- the built-in codecs ----------------------- *)
\* values of each built-in type: the default, the smallest and the largest of
\* the type, values that fill one byte and values that cross a byte, the
\* zeros, subnormals, infinities and NaNs of the floating-point types
BuiltinValues ==
    { << bool, v >> : v \in BOOLEAN }
    \cup { << i32, v >> : v \in { 0, 1, 2, 13, 255, 256, 65535, 65536, 16777216,
                                 2147483647, -1, -256, -2147483647 - 1 } }
    \cup { << i64, v >> :
             v \in { i64_from_words(0, 0, 0, 0), i64_from_words(0, 0, 0, 1),
                     i64_from_words(0, 0, 0, 256), i64_from_words(0, 0, 1, 0),
                     i64_from_words(0, 0, 32768, 0), i64_from_words(0, 1, 0, 0),
                     i64_from_words(1, 0, 0, 0),
                     i64_from_words(-1, 65535, 65535, 65535),
                     i64_from_words(32767, 65535, 65535, 65535),
                     i64_from_words(-32768, 0, 0, 0) } }
    \cup { << f32, v >> :
             v \in { f32_from_bits(0, 0, 0), f32_from_bits(1, 0, 0),
                     f32_from_bits(0, 127, 0), f32_from_bits(1, 127, 0),
                     f32_from_bits(0, 127, 4194304), f32_from_bits(0, 0, 1),
                     f32_from_bits(0, 254, 8388607), f32_from_bits(0, 255, 0),
                     f32_from_bits(1, 255, 0), f32_from_bits(0, 255, 4194304),
                     f32_from_bits(1, 255, 1) } }
    \cup { << f64, v >> :
             v \in { f64_from_bits(0, 0, 0, 0, 0), f64_from_bits(1, 0, 0, 0, 0),
                     f64_from_bits(0, 1023, 0, 0, 0),
                     f64_from_bits(1, 1023, 0, 0, 0),
                     f64_from_bits(0, 1023, 524288, 0, 0),
                     f64_from_bits(0, 0, 0, 0, 1),
                     f64_from_bits(0, 2046, 1048575, 65535, 65535),
                     f64_from_bits(0, 2047, 0, 0, 0),
                     f64_from_bits(1, 2047, 0, 0, 0),
                     f64_from_bits(0, 2047, 524288, 0, 0),
                     f64_from_bits(1, 2047, 0, 0, 1) } }
    \cup { << String, v >> :
             v \in { <<>>, <<0>>, <<10>>, <<102>>, <<103>>, <<102, 103>>,
                     <<102, 111, 111>> } }

\* a value of a built-in type is at hand
InitCodec ==
    /\ FunctionRegistry_new
    /\ \E typed \in BuiltinValues :
          round_trip = [NoRoundTrip EXCEPT !.pc = "value", !.T = typed[1],
                                           !.value = typed[2]]
    /\ wire_millis = NoWireMillis

\* value.serialize(typename): the built-in serializers return Ok(bytes)
Serializable_serialize ==
    /\ round_trip.pc = "value"
    /\ round_trip' =
          [round_trip EXCEPT
             !.pc = "serialized",
             !.buffer = T_serialize(round_trip.T, round_trip.value).bytes]
    /\ UNCHANGED << engine, transport, wire_millis >>

\* T::deserialize(typename, &buffer)
Serializable_deserialize ==
    /\ round_trip.pc = "serialized"
    /\ round_trip' =
          [round_trip EXCEPT
             !.pc = "deserialized",
             !.result = T_deserialize(round_trip.T, round_trip.buffer)]
    /\ UNCHANGED << engine, transport, wire_millis >>

NextCodec ==
    \/ Serializable_serialize
    \/ Serializable_deserialize

SpecCodec == InitCodec /\ [][NextCodec]_vars

(* ------------------- Durations on their way to the wire ---------------- *)
\* the seconds of the Durations that handlers and registrations use: small
\* ones, the largest whose milliseconds fit an i64 and the next one, the
\* largest whose milliseconds fit a u64 and the next one, and u64::MAX
WideSecs ==
    { << 0, 0, 0, 0 >>, << 0, 0, 0, 1 >>, << 0, 0, 0, 5 >>, << 0, 0, 0, 65 >>,
      << 0, 0, 1, 0 >>, << 0, 0, 32, 50331 >>, << 0, 1, 0, 0 >>,
      << 32, 50331, 42467, 21495 >>, << 32, 50331, 42467, 21496 >>,
      << 65, 35127, 19398, 42991 >>, << 65, 35127, 19398, 42992 >>,
      << 65535, 65535, 65535, 65535 >> }

WideNanos == { 0, 999999, 1000000, 1500000, 500000000, 999999999 }

WideDurations ==
    { Duration_new(secs, nanos) : secs \in WideSecs, nanos \in WideNanos }

\* a handler or a registration holds a Duration
InitMillis ==
    /\ FunctionRegistry_new
    /\ round_trip = NoRoundTrip
    /\ \E duration \in WideDurations :
          wire_millis = [NoWireMillis EXCEPT !.duration = duration]

\* serialize_delayed_invocation_messages: set_delay_in_ms(delay.as_millis() as i64)
set_delay_in_ms ==
    /\ wire_millis.delay_in_ms = <<>>
    /\ wire_millis' = [wire_millis EXCEPT
                         !.delay_in_ms = as_i64(as_millis(wire_millis.duration))]
    /\ UNCHANGED << engine, transport, round_trip >>

\* invoke_from_proto, for a missing spec with an expiration type:
\* expire_after_millis = time_to_live.as_millis() as i64
set_expire_after_millis ==
    /\ wire_millis.expire_after_millis = <<>>
    /\ wire_millis' = [wire_millis EXCEPT
                         !.expire_after_millis =
                             as_i64(as_millis(wire_millis.duration))]
    /\ UNCHANGED << engine, transport, round_trip >>

NextMillis ==
    \/ set_delay_in_ms
    \/ set_expire_after_millis

SpecMillis == InitMillis /\ [][NextMillis]_vars

(* ------------------------------ properties ----------------------------- *)
\* the function type that the batch is addressed to
TargetType == FunctionType_new(to_function.target.namespace, to_function.target.type)

Registered == TargetType \in DOMAIN functions

DeclaredSpecs == functions[TargetType].value_specs

SnapshotNames == { to_function.state[i].state_name : i \in 1..Len(to_function.state) }

\* the declared specs whose names the snapshot lacks, in declaration order
AbsentDeclared ==
    LET absent(value_spec) == value_spec.name \notin SnapshotNames
    IN  SelectSeq(DeclaredSpecs, absent)

Answered == pc = "done"

Incomplete == result.kind = "incomplete_invocation_context"

Responded == result.kind = "invocation_result"

\* C1: a batch for a registered function type is answered with exactly one of
\* the two response shapes, and an IncompleteInvocationContext lists exactly
\* the declared specs whose names the snapshot lacks, in declaration order,
\* each with its name and typename.
C1_ResponseShape ==
    (Answered /\ Registered) =>
        /\ Incomplete \/ Responded
        /\ Incomplete =>
              /\ result.invocation_result = InvocationResponse_new
              /\ Len(result.missing_values) = Len(AbsentDeclared)
              /\ \A i \in 1..Len(AbsentDeclared) :
                    /\ result.missing_values[i].state_name = AbsentDeclared[i].name
                    /\ result.missing_values[i].type_typename =
                          AbsentDeclared[i].typename
        /\ Responded => result.missing_values = <<>>

\* C1 witness: of two declared specs, one is in the snapshot and one is not
C1_Witness ==
    /\ Answered /\ Registered /\ Incomplete
    /\ Len(DeclaredSpecs) = 2
    /\ Len(result.missing_values) = 1
    /\ result.missing_values[1].state_name = "bar"

\* C2 as stated: whatever the number of queued invocations, the answer is an
\* IncompleteInvocationContext if a declared name is missing from the
\* snapshot and an InvocationResponse otherwise.
C2_AnyNumberOfInvocations ==
    (Answered /\ Registered) =>
        /\ AbsentDeclared # <<>> => Incomplete
        /\ AbsentDeclared = <<>> => Responded

\* C2 amended: for a batch with at least one queued invocation, the answer is
\* an IncompleteInvocationContext if a declared name is missing from the
\* snapshot and an InvocationResponse otherwise.
C2_MissingStateCheck ==
    (Answered /\ Registered /\ Len(to_function.invocations) >= 1) =>
        /\ AbsentDeclared # <<>> => Incomplete
        /\ AbsentDeclared = <<>> => Responded

\* C2 witness: a batch of two invocations with a declared name missing
C2_Witness ==
    /\ Answered /\ Registered /\ Incomplete
    /\ Len(to_function.invocations) = 2
    /\ Len(AbsentDeclared) = 2

\* C3: when invoke_from_proto ends with anything but an InvocationResponse,
\* no handler has been executed for the batch.
C3_NoHandlerBeforeRefusal ==
    (Answered /\ ~Responded) => handler_calls = <<>>

\* C3 witness: a batch of two invocations is refused for missing state
C3_Witness ==
    /\ Answered /\ Incomplete
    /\ Len(to_function.invocations) = 2
    /\ handler_calls = <<>>

\* a declared spec whose name is in the snapshot under another key: the
\* snapshot's typename is blank or the spec has an expiration
KeyMismatch(value_spec) ==
    /\ value_spec.name \in SnapshotNames
    /\ into(value_spec) \notin DOMAIN parse_persisted_values(to_function.state)

\* C4: the missing-state check compares names only: when every declared name
\* is in the snapshot, the batch is executed even if a snapshot cell's
\* typename or the spec's expiration makes the keys differ.
C4_CheckByNameOnly ==
    (/\ Answered /\ Registered /\ Len(to_function.invocations) >= 1
     /\ AbsentDeclared = <<>>
     /\ \E i \in 1..Len(DeclaredSpecs) : KeyMismatch(DeclaredSpecs[i]))
    => /\ Responded
       /\ Len(handler_calls) = Len(to_function.invocations)

\* C4 witness: both declared cells are in the snapshot with a blank typename
C4_Witness ==
    /\ Answered /\ Registered /\ Responded
    /\ Len(to_function.invocations) >= 1
    /\ Len(DeclaredSpecs) = 2
    /\ \A i \in 1..Len(DeclaredSpecs) : KeyMismatch(DeclaredSpecs[i])
    /\ \A i \in 1..Len(to_function.state) :
          to_function.state[i].state_value.typename = ""

\* C5: a value written with update_state by one invocation is what get_state
\* returns for the same spec in the next invocation of the batch.
C5_WriteVisibleToNext ==
    pc = "handler" =>
        \A value_spec \in ValueSpecs :
            into(value_spec) \in DOMAIN written =>
                get_state(context, value_spec) =
                    [some |-> TRUE, ok |-> TRUE,
                     value |-> written[into(value_spec)]]

\* C5 witness: the second invocation runs after the first one wrote a value
C5_Witness ==
    /\ pc = "handler"
    /\ Len(handler_calls) = 2
    /\ written # EmptyMap

StateMutations == result.invocation_result.state_mutations

MutationsFor(name) ==
    { i \in 1..Len(StateMutations) : StateMutations[i].state_name = name }

\* the mutation that stands for a state effect on the wire
ExpectedMutation(state_effect) ==
    IF state_effect.kind = "Delete"
    THEN [mutation_type |-> "DELETE", state_name |-> state_effect.spec.name,
          state_value |-> NoTypedValue]
    ELSE [mutation_type |-> "MODIFY", state_name |-> state_effect.spec.name,
          state_value |-> to_typed_value(state_effect.spec.typename,
                                         state_effect.state)]

\* C6: the InvocationResponse has at most one state mutation per cell name,
\* and it equals the last state effect of the batch for that name, also when
\* the cell was addressed through specs that differ in typename or expiration.
C6_OneMutationPerName ==
    (Answered /\ Responded) =>
        \A name \in Names :
            IF name \in DOMAIN last_effect
            THEN /\ Cardinality(MutationsFor(name)) = 1
                 /\ \A i \in MutationsFor(name) :
                       StateMutations[i] = ExpectedMutation(last_effect[name])
            ELSE MutationsFor(name) = {}

\* C7: last write wins in both directions for a cell addressed through one
\* spec: an update followed by a delete leaves only the DELETE mutation, a
\* delete followed by an update leaves only the MODIFY mutation with the
\* value of the update.
C7_LastWriteWins ==
    (Answered /\ Responded) =>
        \A name \in DOMAIN last_effect :
            (/\ Cardinality(last_effect[name].specs) = 1
             /\ last_effect[name].replaced # "none")
            => /\ Cardinality(MutationsFor(name)) = 1
               /\ \A i \in MutationsFor(name) :
                     /\ StateMutations[i] = ExpectedMutation(last_effect[name])
                     /\ last_effect[name].kind = "Delete" =>
                           /\ StateMutations[i].mutation_type = "DELETE"
                           /\ ~StateMutations[i].state_value.has_value
                     /\ last_effect[name].kind = "Update" =>
                           /\ StateMutations[i].mutation_type = "MODIFY"
                           /\ StateMutations[i].state_value.value =
                                 last_effect[name].state

\* C7 witness: one invocation updates a cell and then deletes it
C7_Witness ==
    /\ Answered /\ Responded
    /\ Len(handler_calls) = 1
    /\ \E name \in DOMAIN last_effect :
          /\ Cardinality(last_effect[name].specs) = 1
          /\ last_effect[name].kind = "Delete"
          /\ last_effect[name].replaced = "Update"

\* C8: a delete keeps the cell's key in the working state map, with empty
\* bytes, and no batch is answered with an IncompleteInvocationContext after
\* a state effect (a delete in particular) was issued in it.
C8_DeleteKeepsKey ==
    /\ pc \in {"loop", "done"} =>
          \A name \in DOMAIN last_effect :
              last_effect[name].kind = "Delete" =>
                  /\ last_effect[name].spec \in DOMAIN persisted_values
                  /\ persisted_values[last_effect[name].spec] = <<>>
    /\ (Answered /\ Incomplete) => last_effect = EmptyMap

\* C8 witness: the second invocation runs after the first deleted a declared cell
C8_Witness ==
    /\ pc = "handler"
    /\ Len(handler_calls) = 2
    /\ effects = Effects_new
    /\ \E i \in 1..Len(DeclaredSpecs) :
          /\ DeclaredSpecs[i].name \in DOMAIN last_effect
          /\ last_effect[DeclaredSpecs[i].name].kind = "Delete"
          /\ last_effect[DeclaredSpecs[i].name].spec = into(DeclaredSpecs[i])

\* the cell that the spec addresses has no value in the working state: it is
\* absent or holds empty bytes (allocated and never written, or deleted)
HasNoValue(state, value_spec) ==
    into(value_spec) \in DOMAIN state => state[into(value_spec)] = <<>>

\* C9: get_state returns None exactly when the cell named by the spec has no
\* value in the working state (absent, allocated with empty bytes, or
\* deleted earlier in the batch), and otherwise Some with the decoded bytes.
C9_NoneIffNoValue ==
    pc = "handler" =>
        \A value_spec \in ValueSpecs :
            /\ ~get_state(context, value_spec).some
                  <=> HasNoValue(context.state, value_spec)
            /\ get_state(context, value_spec).some =>
                  get_state(context, value_spec).value =
                      deserialize(context.state[into(value_spec)]).value

\* C10: for a declared cell whose snapshot entry holds bytes, get_state
\* returns the decoded snapshot value in every invocation before a write to
\* the cell, whatever the snapshot's typename and the spec's expiration.
C10_LookupByNameOnly ==
    (pc = "handler" /\ Registered) =>
        \A i \in 1..Len(DeclaredSpecs), j \in 1..Len(to_function.state) :
            (/\ to_function.state[j].state_name = DeclaredSpecs[i].name
             /\ to_function.state[j].state_value.value # <<>>
             /\ DeclaredSpecs[i].name \notin DOMAIN last_effect)
            => get_state(context, DeclaredSpecs[i]) =
                  [some |-> TRUE, ok |-> TRUE,
                   value |-> deserialize(
                                 to_function.state[j].state_value.value).value]

\* C11: a batch of n invocations that is answered with an InvocationResponse
\* had n handler calls, the k-th with the k-th invocation's argument; while
\* call k runs the loop stands at k, the handler holds the k-th argument, and
\* the working state it sees holds every value that call k-1 wrote.
C11_CallsInBatchOrder ==
    /\ (Answered /\ Responded) =>
          /\ Len(handler_calls) = Len(to_function.invocations)
          /\ \A k \in 1..Len(handler_calls) :
                handler_calls[k].argument = to_function.invocations[k].argument
    /\ pc = "handler" =>
          /\ Len(handler_calls) = next_invocation
          /\ message = to_function.invocations[next_invocation].argument
          /\ \A key \in DOMAIN written :
                /\ key \in DOMAIN context.state
                /\ context.state[key] = serialize(written[key])

\* C11 witness: the second of two calls with different arguments runs after
\* the first call wrote a value
C11_Witness ==
    /\ pc = "handler"
    /\ Len(handler_calls) = 2
    /\ handler_calls[1].argument # handler_calls[2].argument
    /\ written # EmptyMap

\* the calls of these operations among the message effects of the batch, in
\* call order
CallsOf(ops) ==
    LET called(call) == call.op \in ops
    IN  SelectSeq(message_calls, called)

\* a string value on the wire: field 1 of StringWrapper, length-delimited
WireString(chars) ==
    [typename |-> "io.statefun.types/string", has_value |-> TRUE,
     value |-> << 10, Len(chars) >> \o chars]

WireAddress(address) ==
    [namespace |-> address.function_type.namespace,
     type |-> address.function_type.name, id |-> address.id]

\* C12: outgoing_messages is the list of the batch's send calls in call
\* order, each with the target, typename and bytes that the handler
\* supplied, and outgoing_egresses is the same for the egress calls.
C12_MessagesInCallOrder ==
    (Answered /\ Responded) =>
        /\ result.invocation_result.outgoing_messages =
              [i \in 1..Len(CallsOf({"send"})) |->
                  [target |-> WireAddress(CallsOf({"send"})[i].address),
                   argument |-> WireString(CallsOf({"send"})[i].value)]]
        /\ result.invocation_result.outgoing_egresses =
              [i \in 1..Len(CallsOf({"egress"})) |->
                  [egress_namespace |-> CallsOf({"egress"})[i].identifier.namespace,
                   egress_type |-> CallsOf({"egress"})[i].identifier.name,
                   argument |-> WireString(CallsOf({"egress"})[i].value)]]

\* C12 witness: two invocations of a batch send different values
C12_Witness ==
    /\ Answered /\ Responded
    /\ Len(CallsOf({"send"})) = 2
    /\ CallsOf({"send"})[1].invocation # CallsOf({"send"})[2].invocation
    /\ CallsOf({"send"})[1].value # CallsOf({"send"})[2].value

DelayedInvocations == result.invocation_result.delayed_invocations

\* the entry of delayed_invocations that stands for a send_after or a
\* cancel_delayed_message call
ExpectedDelayed(call) ==
    IF call.op = "send_after"
    THEN [is_cancellation_request |-> FALSE,
          target |-> WireAddress(call.address),
          delay_in_ms |-> call.delay.secs * 1000 + call.delay.nanos \div 1000000,
          cancellation_token |-> call.cancellation_token,
          argument |-> WireString(call.value)]
    ELSE [is_cancellation_request |-> TRUE,
          target |-> [namespace |-> "", type |-> "", id |-> ""],
          delay_in_ms |-> 0,
          cancellation_token |-> call.cancellation_token,
          argument |-> [typename |-> "", has_value |-> FALSE, value |-> <<>>]]

\* C13: delayed_invocations lists the delayed sends and the cancellations of
\* the batch in the order in which the handlers issued them.
C13_DelayedInCallOrder ==
    (Answered /\ Responded) =>
        LET calls == CallsOf({"send_after", "cancel_delayed_message"})
        IN  /\ Len(DelayedInvocations) = Len(calls)
            /\ \A i \in 1..Len(calls) :
                  /\ DelayedInvocations[i].is_cancellation_request =
                        (calls[i].op = "cancel_delayed_message")
                  /\ DelayedInvocations[i].cancellation_token =
                        calls[i].cancellation_token

\* the entries of delayed_invocations that are, or are not, cancellations
DelayedEntries(is_cancellation_request) ==
    LET selected(entry) == entry.is_cancellation_request = is_cancellation_request
    IN  SelectSeq(DelayedInvocations, selected)

\* C14: every send_after call has its entry in delayed_invocations, not a
\* cancellation, with the target, the delay in milliseconds, the token and
\* the value's typename and bytes; every cancel_delayed_message call has its
\* entry, a cancellation with the token, an empty target and no payload,
\* whether or not a delayed send carries that token; there is no other entry.
C14_DelayedEntries ==
    (Answered /\ Responded) =>
        /\ DelayedEntries(FALSE) =
              [i \in 1..Len(CallsOf({"send_after"})) |->
                  ExpectedDelayed(CallsOf({"send_after"})[i])]
        /\ DelayedEntries(TRUE) =
              [i \in 1..Len(CallsOf({"cancel_delayed_message"})) |->
                  ExpectedDelayed(CallsOf({"cancel_delayed_message"})[i])]

\* C14 witness: a delayed send of one and a half seconds, and a cancellation
\* whose token no delayed send carries
C14_Witness ==
    /\ Answered /\ Responded
    /\ \E i \in 1..Len(DelayedInvocations) :
          /\ ~DelayedInvocations[i].is_cancellation_request
          /\ DelayedInvocations[i].delay_in_ms = 1500
    /\ \E i \in 1..Len(DelayedInvocations) :
          /\ DelayedInvocations[i].is_cancellation_request
          /\ \A call \in { message_calls[j] : j \in 1..Len(message_calls) } :
                call.op = "send_after" =>
                    call.cancellation_token #
                        DelayedInvocations[i].cancellation_token

\* the batch ended with the error FunctionNotFound for its target type: no
\* FromFunction was returned and no handler was called
NotFound ==
    /\ result.kind = "FunctionNotFound"
    /\ result.function_type = TargetType
    /\ result.invocation_result = InvocationResponse_new
    /\ result.missing_values = <<>>
    /\ handler_calls = <<>>

\* C15 as stated: a batch whose target function type is not registered ends
\* with FunctionNotFound(target type), whatever the number of its queued
\* invocations.
C15_UnknownTargetAnyBatch ==
    (Answered /\ ~Registered) => NotFound

\* C15 amended: a batch with at least one queued invocation whose target
\* function type is not registered ends with FunctionNotFound(target type),
\* returns no FromFunction and executes no handler.
C15_UnknownTarget ==
    (Answered /\ ~Registered /\ Len(to_function.invocations) >= 1) => NotFound

\* C15 witness: a batch of two invocations for a type that is not registered,
\* while another type is
C15_Witness ==
    /\ Answered /\ ~Registered /\ NotFound
    /\ Len(to_function.invocations) = 2
    /\ functions # EmptyMap

\* the handler that the start-up code registers under a function type
RegisteredUnder(function_type) ==
    { registration.function :
        registration \in { r \in Registrations : r.function_type = function_type } }

\* C16: every handler call of a batch runs the handler that was registered
\* under the batch's target type, also when other types are registered.
C16_CorrectFunction ==
    \A k \in 1..Len(handler_calls) :
        /\ Registered
        /\ handler_calls[k].function = functions[TargetType].function
        /\ handler_calls[k].function \in RegisteredUnder(TargetType)

\* C16 witness: two types are registered and the handler of the second runs
C16_Witness ==
    /\ pc = "handler"
    /\ Cardinality(DOMAIN functions) = 2
    /\ TargetType = FunctionType_new("namespace", "bar")
    /\ handler_calls[1].function = "g"

\* the address that a wire address stands for
DecodedAddress(proto_address) ==
    [function_type |-> [namespace |-> proto_address.namespace,
                        name |-> proto_address.type],
     id |-> proto_address.id]

\* C17: in every handler call of a batch, self_address is the batch's target
\* and caller_address is the caller of that call's invocation, which may
\* differ between the invocations and may be all-empty.
C17_ContextAddresses ==
    /\ \A k \in 1..Len(handler_calls) :
          /\ handler_calls[k].self_address = DecodedAddress(to_function.target)
          /\ handler_calls[k].caller_address =
                DecodedAddress(to_function.invocations[k].caller)
    /\ pc = "handler" =>
          /\ self_address(context) = DecodedAddress(to_function.target)
          /\ caller_address(context) =
                DecodedAddress(to_function.invocations[next_invocation].caller)

\* C17 witness: the first call of a batch comes from an ingress, the second
\* from a function
C17_Witness ==
    /\ pc = "handler"
    /\ Len(handler_calls) = 2
    /\ handler_calls[1].caller_address = EmptyAddress
    /\ handler_calls[2].caller_address # EmptyAddress
    /\ handler_calls[2].caller_address # handler_calls[2].self_address

\* C18: Message::get::<T> on a message whose typename differs from T's
\* returns the error "Incompatible types. Expected: X Payload: Y", X being
\* T's typename and Y the message's; on equal typenames it returns what the
\* decoder returns.
C18_IncompatibleTypes ==
    (pc = "handler" /\ get_result.called) =>
        IF message.typename # get_result.requested
        THEN /\ ~get_result.ok
             /\ get_result.error =
                   "Incompatible types. Expected: " \o get_result.requested
                   \o " Payload: " \o message.typename
        ELSE /\ get_result.ok
             /\ get_result.value = SubSeq(message.value, 3, Len(message.value))

\* C19: a batch with no queued invocation is answered with an
\* InvocationResponse whose four lists are empty.
C19_EmptyBatch ==
    (Answered /\ Len(to_function.invocations) = 0) =>
        /\ Responded
        /\ result.invocation_result.outgoing_messages = <<>>
        /\ result.invocation_result.delayed_invocations = <<>>
        /\ result.invocation_result.outgoing_egresses = <<>>
        /\ result.invocation_result.state_mutations = <<>>

\* C19 witness: an empty batch with a written cell in its snapshot, for a
\* type that is not registered
C19_Witness ==
    /\ Answered /\ Responded
    /\ Len(to_function.invocations) = 0
    /\ ~Registered
    /\ \E i \in 1..Len(to_function.state) :
          to_function.state[i].state_value.value # <<>>

\* C20: the response has a state mutation for a cell only if a handler of
\* the batch issued an update_state or a delete_state for it; when no
\* handler issued any effect the response is empty, whatever the snapshot
\* holds.
C20_NoEffectNoMutation ==
    (Answered /\ Responded) =>
        /\ \A i \in 1..Len(StateMutations) :
              StateMutations[i].state_name \in DOMAIN last_effect
        /\ (last_effect = EmptyMap /\ message_calls = <<>>) =>
              result.invocation_result = InvocationResponse_new

\* C20 witness: two handler calls without effects on a snapshot that holds a
\* written cell
C20_Witness ==
    /\ Answered /\ Responded
    /\ Len(handler_calls) = 2
    /\ last_effect = EmptyMap
    /\ StateMutations = <<>>
    /\ \E i \in 1..Len(to_function.state) :
          to_function.state[i].state_value.value # <<>>

\* the five lists of an Effects
EffectsLists ==
    { "invocations", "delayed_invocations", "cancelled_delayed_invocations",
      "egress_messages", "state_updates" }

\* the list that each logged operation appends to
OwnList ==
    [op \in { "send", "send_after", "cancel_delayed_message", "egress" } |->
        CASE op = "send" -> "invocations"
          [] op = "send_after" -> "delayed_invocations"
          [] op = "cancel_delayed_message" -> "cancelled_delayed_invocations"
          [] op = "egress" -> "egress_messages"]

\* this step is a call of an operation of the running handler's Effects
EffectsCall == pc = "handler" /\ effect_calls' = effect_calls + 1

\* the call of this step was logged: a message effect, or a call that
\* returned Err
Logged == message_calls' # message_calls

LoggedCall == message_calls'[Len(message_calls')]

\* this step appends one entry to this list and leaves the other four alone
OnlyAppends(list) ==
    /\ Len(effects'[list]) = Len(effects[list]) + 1
    /\ SubSeq(effects'[list], 1, Len(effects[list])) = effects[list]
    /\ \A other \in EffectsLists \ {list} : effects'[other] = effects[other]

\* C21: every call of an operation of the Effects that succeeds appends one
\* entry to the operation's own list, leaves every entry appended earlier in
\* place and leaves the other four lists alone; update_state and
\* delete_state of one cell both stay in state_updates, in call order.
C21_OnlyAppends ==
    [][EffectsCall =>
          IF Logged
          THEN IF LoggedCall.op = "Err" THEN effects' = effects
               ELSE OnlyAppends(OwnList[LoggedCall.op])
          ELSE OnlyAppends("state_updates")]_vars

\* C21 witness: a handler has updated a cell and then deleted the same cell
C21_Witness ==
    /\ pc = "handler"
    /\ effects.state_updates = << Update(into(IntCell), serialize(2)),
                                  Delete(into(IntCell)) >>

\* the entries of the five lists of the running handler's Effects
TotalEntries ==
    Len(effects.invocations) + Len(effects.delayed_invocations)
    + Len(effects.cancelled_delayed_invocations) + Len(effects.egress_messages)
    + Len(effects.state_updates)

\* what a logged value is on the wire
WireValue(call) ==
    [typename |-> call.typename, has_value |-> TRUE,
     value |-> << 10, Len(call.value) >> \o call.value]

\* C22: a call of send, send_after, egress or update_state whose serializer
\* fails returns the serializer's error and leaves the Effects as it was;
\* the entries of the successful calls stay, and the messages among them are
\* forwarded when the handler returns.
C22_SerializerError ==
    /\ [][(EffectsCall /\ Logged /\ LoggedCall.op = "Err") =>
             /\ effects' = effects
             /\ LoggedCall.value \in Unwritable
             /\ LoggedCall.error = "write_to_bytes failed"]_vars
    /\ [](/\ \A i \in 1..Len(message_calls) :
                message_calls[i].op # "Err" =>
                    ("value" \in DOMAIN message_calls[i] =>
                        ~ (message_calls[i].typename = MyStringValue.typename
                           /\ message_calls[i].value \in Unwritable))
          /\ pc = "handler" =>
                TotalEntries = effect_calls - Len(CallsOf({"Err"}))
          /\ (Answered /\ Responded) =>
                result.invocation_result.outgoing_messages =
                   [i \in 1..Len(CallsOf({"send"})) |->
                       [target |-> WireAddress(CallsOf({"send"})[i].address),
                        argument |-> WireValue(CallsOf({"send"})[i])]])

\* C22 witness: a handler's send succeeded, its next send failed, it
\* returned the Effects and the batch is answered
C22_Witness ==
    /\ Answered /\ Responded
    /\ Len(message_calls) = 2
    /\ message_calls[1].op = "send"
    /\ message_calls[2].op = "Err" /\ message_calls[2].call = "send"
    /\ Len(result.invocation_result.outgoing_messages) = 1

\* the loop of invoke_from_proto has run every invocation of the batch
LoopDone == pc = "loop" /\ next_invocation > Len(to_function.invocations)

\* the state mutations that the end of invoke_from_proto may put into the
\* response of this batch
PossibleStateMutations ==
    { serialize_state_updates(state_values) :
        state_values \in drain(coalesced_state_updates) }

\* C23: the response is a function of the batch, the registry and what the
\* handlers did: once the loop is done there is one list of state mutations
\* that the batch can be answered with, also when several cells are mutated.
C23_Deterministic == LoopDone => Cardinality(PossibleStateMutations) = 1

\* C26: value specs with equal name and equal typename are one key of the
\* working state map and of the coalescing map, whatever their expiration:
\* no map holds two entries whose keys agree in name and typename.
C26_EqualByNameAndTypename ==
    /\ \A a, b \in DOMAIN persisted_values :
          (a.name = b.name /\ a.typename = b.typename) => a = b
    /\ \A a, b \in DOMAIN coalesced_state_updates :
          (a.name = b.name /\ a.typename = b.typename) => a = b

\* the ExpirationSpec that the coordinator is to get for an Expiration
ExpectedExpirationSpec(expiration) ==
    CASE expiration.expiration_type = "None" ->
            [mode |-> "NONE", expire_after_millis |-> 0]
      [] expiration.expiration_type = "AfterWrite" ->
            [mode |-> "AFTER_WRITE",
             expire_after_millis |-> expiration.time_to_live.secs * 1000
                                     + expiration.time_to_live.nanos \div 1000000]
      [] expiration.expiration_type = "AfterInvoke" ->
            [mode |-> "AFTER_INVOKE",
             expire_after_millis |-> expiration.time_to_live.secs * 1000
                                     + expiration.time_to_live.nanos \div 1000000]

\* C27: each spec listed in an IncompleteInvocationContext carries its name,
\* its typename and the expiration spec of its Expiration: NONE with 0 for no
\* expiration, AFTER_WRITE or AFTER_INVOKE with the time to live in
\* milliseconds otherwise, a time to live of zero included.
C27_ExpirationSpecs ==
    (Answered /\ Incomplete) =>
        result.missing_values =
           [i \in 1..Len(AbsentDeclared) |->
               [state_name |-> AbsentDeclared[i].name,
                type_typename |-> AbsentDeclared[i].typename,
                expiration_spec |->
                   ExpectedExpirationSpec(AbsentDeclared[i].expiration)]]

\* C27 witness: a missing-state response lists a cell that expires 1500 ms
\* after an invocation and a cell that expires 0 ms after a write
C27_Witness ==
    /\ Answered /\ Incomplete
    /\ \E i, j \in 1..Len(result.missing_values) :
          /\ result.missing_values[i].expiration_spec =
                [mode |-> "AFTER_INVOKE", expire_after_millis |-> 1500]
          /\ result.missing_values[j].expiration_spec =
                [mode |-> "AFTER_WRITE", expire_after_millis |-> 0]

\* C30: a register_fn call for a function type that is registered already
\* does not replace the handler and the value specs of the first
\* registration: no step changes an entry of the registry.
C30_NoSilentReplacement ==
    [][\A function_type \in DOMAIN functions :
          /\ function_type \in DOMAIN functions'
          /\ functions'[function_type] = functions[function_type]]_vars

\* this request's handle_request has returned or died
AnsweredRequest(r) == in_flight[r].pc = "answered"

\* what the worker answers a body with when it is the only request: a batch
\* of n logins for the registered user function counts to n
Alone(body) ==
    IF body.wire # "ToFunction"
    THEN [kind |-> "Err", status |-> 0, body |-> NoBody,
          error |-> [variant |-> "ProtobufError",
                     function_type |-> FunctionType_new("", "")]]
    ELSE LET request == body.to_function
             n == Len(request.invocations)
             target == FunctionType_new(request.target.namespace,
                                        request.target.type)
             answer(response) ==
                 [kind |-> "Ok", status |-> 200,
                  body |-> [wire |-> "FromFunction", to_function |-> NoToFunction,
                            from_function |->
                               [kind |-> "invocation_result",
                                invocation_result |-> response,
                                missing_values |-> <<>>,
                                function_type |-> FunctionType_new("", "")]],
                  error |-> NoError]
         IN  IF n = 0 THEN answer(InvocationResponse_new)
             ELSE IF target \notin DOMAIN functions
             THEN [kind |-> "Err", status |-> 0, body |-> NoBody,
                   error |-> [variant |-> "InvocationError",
                              function_type |-> target]]
             ELSE IF \E i \in 1..n :
                        request.invocations[i].argument.typename # StringTypename
             THEN Panicked
             ELSE answer([InvocationResponse_new EXCEPT
                             !.state_mutations =
                                << [mutation_type |-> "MODIFY",
                                    state_name |-> "foo",
                                    state_value |->
                                       [typename |-> IntTypename,
                                        has_value |-> TRUE,
                                        value |-> << IntWrapperTag, n, 0, 0, 0 >>]] >>])

Locked == { r \in RequestIds : in_flight[r].pc = "locked" }

\* C25: at most one request is inside invoke_from_proto; while a batch is
\* processed its request holds the lock, and a handler runs only when the
\* handlers of the batch's earlier invocations have returned.
C25_OneHandlerAtATime ==
    /\ Cardinality(Locked) <= 1
    /\ pc \in {"loop", "handler", "done"} =>
          /\ Locked = {mutex.holder}
          /\ to_function = in_flight[mutex.holder].to_function
    /\ pc = "handler" => Len(handler_calls) = next_invocation

\* C25 witness: a handler of a batch's second invocation runs while another
\* request is decoded and waits for the lock
C25_Witness ==
    /\ pc = "handler" /\ next_invocation = 2
    /\ \E r \in RequestIds : in_flight[r].pc = "decoded"

\* C28: a request whose body cannot be decoded, or whose invoke_from_proto
\* returns an error, is answered with a response of a 4xx status without a
\* FromFunction body.
C28_FailureStatus ==
    \A r \in RequestIds :
        (AnsweredRequest(r) /\ in_flight[r].answer.error # NoError) =>
            /\ in_flight[r].answer.kind = "Ok"
            /\ in_flight[r].answer.status \in 400..499
            /\ in_flight[r].answer.body = NoBody

\* C29: as long as no handler has aborted, no request dies in a panic:
\* invoke_from_proto ends with a FromFunction or an InvocationError and
\* handle_request returns Ok or Err.
C29_NoPanic ==
    ~ mutex.poisoned =>
        /\ \A r \in RequestIds :
              AnsweredRequest(r) => in_flight[r].answer.kind \in {"Ok", "Err"}
        /\ pc = "done" =>
              result.kind \in { "invocation_result",
                                "incomplete_invocation_context",
                                "FunctionNotFound" }

\* C29 witness: one request was answered with Err(FunctionNotFound) or
\* Err(ProtobufError), the other with a FromFunction that holds a state
\* mutation
C29_Witness ==
    /\ ~ mutex.poisoned
    /\ \E r, other \in RequestIds :
          /\ AnsweredRequest(r) /\ in_flight[r].answer.kind = "Err"
          /\ AnsweredRequest(other) /\ in_flight[other].answer.kind = "Ok"
          /\ in_flight[other].answer.body.from_function.invocation_result.state_mutations
                # <<>>

\* the value that came back is the value that went in: equal by the == of
\* its type, and a NaN, which equals nothing, comes back with its own bits
SameValue(T, w, v) ==
    IF T \in { f32, f64 }
    THEN float_eq(w, v) \/ (is_nan(v) /\ w = v)
    ELSE w = v

\* C31: for every built-in type and every value v of it,
\* deserialize(serialize(v)) returns Ok(v).
C31_RoundTrip ==
    round_trip.pc = "deserialized"
    => /\ round_trip.result.ok
       /\ SameValue(round_trip.T, round_trip.result.value, round_trip.value)

\* a negative i32, whose top byte carries the sign, has made the round trip
C31_Witness ==
    /\ round_trip.pc = "deserialized"
    /\ round_trip.T = i32
    /\ round_trip.value = -256
    /\ round_trip.buffer = << IntWrapperTag, 0, 255, 255, 255 >>
    /\ round_trip.result = [ok |-> TRUE, value |-> -256]

\* C32: at every point of batch processing the working state map holds at
\* most one entry per cell name.
C32_OneEntryPerName ==
    \A held, other \in DOMAIN persisted_values :
        held.name = other.name => held = other

\* the cell names that are keys of a state map
KeyNames(map) == { key.name : key \in DOMAIN map }

\* a batch is being processed: the working state map is that of the batch
Processing == pc \in {"loop", "handler", "done"}

\* C33: while a batch is processed the set of cell names in the working
\* state map never shrinks; every name of the snapshot stays a key after any
\* updates and deletes, so once an invocation of the batch has passed the
\* missing-state check the batch is not answered with an
\* IncompleteInvocationContext.
C33_NamesNeverShrink ==
    [][/\ (Processing /\ Processing')
          => KeyNames(persisted_values) \subseteq KeyNames(persisted_values')
       /\ Processing' => (SnapshotNames \subseteq KeyNames(persisted_values))'
       /\ (Answered /\ Incomplete)' => handler_calls' = <<>>]_vars

\* the second invocation has passed the check after the first one deleted
\* every cell of the snapshot
C33_Witness ==
    /\ pc = "handler"
    /\ Len(handler_calls) = 2
    /\ SnapshotNames = {"foo", "bar"}
    /\ \A name \in SnapshotNames :
          /\ name \in DOMAIN last_effect
          /\ last_effect[name].kind = "Delete"
    /\ KeyNames(persisted_values) = SnapshotNames

\* the effects of the handler calls so far are applied: the loop is between
\* two invocations, or a handler is running on the maps the loop handed it
EffectsApplied == pc \in {"loop", "handler"}

\* C34: after the effects of each invocation are applied, the working state
\* map and the coalesced map agree: a spec with a coalesced Update holds the
\* Update's bytes in the working map, a spec with a coalesced Delete holds
\* empty bytes, and every other spec holds its snapshot bytes.
C34_MapsAgree ==
    EffectsApplied =>
        /\ \A spec \in DOMAIN coalesced_state_updates :
              /\ spec \in DOMAIN persisted_values
              /\ coalesced_state_updates[spec].spec = spec
              /\ persisted_values[spec] =
                    IF coalesced_state_updates[spec].kind = "Delete" THEN <<>>
                    ELSE coalesced_state_updates[spec].state
        /\ \A spec \in (DOMAIN persisted_values)
                          \ DOMAIN coalesced_state_updates :
              /\ spec \in DOMAIN parse_persisted_values(to_function.state)
              /\ persisted_values[spec] =
                    parse_persisted_values(to_function.state)[spec]

\* after the first invocation one cell holds a coalesced Update, one a
\* coalesced Delete, and a snapshot entry with a value is untouched
C34_Witness ==
    /\ pc = "loop"
    /\ next_invocation = 2
    /\ \E spec \in DOMAIN coalesced_state_updates :
          /\ coalesced_state_updates[spec].kind = "Update"
          /\ persisted_values[spec] # <<>>
    /\ \E spec \in DOMAIN coalesced_state_updates :
          coalesced_state_updates[spec].kind = "Delete"
    /\ \E spec \in (DOMAIN persisted_values) \ DOMAIN coalesced_state_updates :
          persisted_values[spec] # <<>>

\* C35: the Context of an invocation is a frozen view. It is built over the
\* working state map as the loop holds it; while the handler runs, the
\* working map and the Context do not change and get_state answers as it did
\* at construction, whatever update_state and delete_state effects the
\* handler has appended; the effects reach the working map only with the
\* handler's return.
C35_FrozenContext ==
    [][/\ pc' = "handler" => context'.state = persisted_values
       /\ (pc = "handler" /\ pc' = "handler")
          => /\ persisted_values' = persisted_values
             /\ \A value_spec \in ValueSpecs :
                   get_state(context', value_spec) = get_state(context, value_spec)
       /\ (pc = "handler" /\ pc' = "loop")
          => persisted_values' =
                update_state(persisted_values, coalesced_state_updates,
                             effects.state_updates).persisted_state]_vars

\* the handler has appended an update of a cell to 2 and a delete of the
\* same cell, and get_state of that cell still answers Some(1)
C35_Witness ==
    /\ pc = "handler"
    /\ \E value_spec \in ValueSpecs :
          /\ effects.state_updates =
                << Update(into(value_spec), serialize(2)),
                   Delete(into(value_spec)) >>
          /\ get_state(context, value_spec) =
                [some |-> TRUE, ok |-> TRUE, value |-> 1]

\* the invocation whose handler produced the entry at this position of
\* delayed_invocations: the call of the entry's kind with the entry's rank
\* among the entries of that kind
ProducedBy(position) ==
    LET kind == DelayedInvocations[position].is_cancellation_request
        rank == Cardinality({ i \in 1..position :
                    DelayedInvocations[i].is_cancellation_request = kind })
    IN  CallsOf({ IF kind THEN "cancel_delayed_message"
                  ELSE "send_after" })[rank].invocation

\* C36: over a whole batch, the entries of delayed_invocations that are not
\* cancellations are the send_after calls in call order, the entries that
\* are cancellations are the cancel_delayed_message calls in call order, and
\* every entry of invocation k comes before every entry of invocation k+1.
C36_DelayedPerKindOrder ==
    (Answered /\ Responded) =>
        /\ [i \in 1..Len(DelayedEntries(FALSE)) |->
               DelayedEntries(FALSE)[i].cancellation_token] =
           [i \in 1..Len(CallsOf({"send_after"})) |->
               CallsOf({"send_after"})[i].cancellation_token]
        /\ [i \in 1..Len(DelayedEntries(TRUE)) |->
               DelayedEntries(TRUE)[i].cancellation_token] =
           [i \in 1..Len(CallsOf({"cancel_delayed_message"})) |->
               CallsOf({"cancel_delayed_message"})[i].cancellation_token]
        /\ \A earlier, later \in 1..Len(DelayedInvocations) :
              earlier < later => ProducedBy(earlier) <= ProducedBy(later)

\* the first invocation cancelled a delayed message and the second one sent a
\* delayed message: the cancellation comes first
C36_Witness ==
    /\ Answered /\ Responded
    /\ Len(DelayedInvocations) = 2
    /\ DelayedInvocations[1].is_cancellation_request
    /\ ~DelayedInvocations[2].is_cancellation_request
    /\ ProducedBy(1) = 1
    /\ ProducedBy(2) = 2

\* the fields of the response that wire_millis has set
MillisFields ==
    { field \in { wire_millis.delay_in_ms, wire_millis.expire_after_millis } :
        field # <<>> }

\* the i64 is the number that the u128 is: it is not negative and the u128
\* has no bit above its low 63
SameNumber(field, u128) ==
    /\ field[1] >= 0
    /\ u128 = << 0, 0, 0, 0, field[1], field[2], field[3], field[4] >>

\* C39: for every Duration, delay_in_ms and expire_after_millis are the whole
\* milliseconds of the Duration, are never negative, and the conversion to
\* the 64-bit signed field does not wrap.
C39_MillisNeverWrap ==
    \A field \in MillisFields :
        SameNumber(field, as_millis(wire_millis.duration))

\* the fields are right for every Duration of less than 2^63 milliseconds
MillisBelowI64Max ==
    LET u128 == as_millis(wire_millis.duration)
    IN  (u128[4] = 0 /\ u128[5] < 32768) =>
            \A field \in MillisFields : SameNumber(field, u128)

\* the model's narrow as_millis agrees with the wide one where both apply
NarrowMillisAgree ==
    \A field \in MillisFields :
        LET secs == wire_millis.duration.secs
        IN  (secs[1] = 0 /\ secs[2] = 0 /\ secs[3] = 0 /\ secs[4] < 1000) =>
               field = i64_from_words(0, 0,
                          Duration_as_millis([secs |-> secs[4],
                              nanos |-> wire_millis.duration.nanos]) \div 65536,
                          Duration_as_millis([secs |-> secs[4],
                              nanos |-> wire_millis.duration.nanos]) % 65536)

\* the request has its answer from handle_request: a Response or an Err
Served(r) ==
    /\ AnsweredRequest(r)
    /\ in_flight[r].answer.kind \in {"Ok", "Err"}

\* C37: the lock is released on every return path of a request, so with
\* handlers that return and a fair scheduler every decoded request
\* eventually gets the lock and is answered.
C37_EveryRequestAnswered ==
    /\ [](\A r \in RequestIds : AnsweredRequest(r) => mutex.holder # r)
    /\ \A r \in RequestIds : (in_flight[r].pc = "decoded") ~> Served(r)

\* one request left with the error FunctionNotFound or with an
\* IncompleteInvocationContext, and another request holds the lock after it
C37_Witness ==
    \E r, other \in RequestIds :
        /\ Served(r)
        /\ \/ in_flight[r].answer.error.variant = "InvocationError"
           \/ /\ in_flight[r].answer.kind = "Ok"
              /\ in_flight[r].answer.body.from_function.kind =
                    "incomplete_invocation_context"
        /\ in_flight[other].pc = "locked"
        /\ mutex.holder = other

\* the body is a well-formed batch for a registered function, and each of
\* its messages is of the type the function expects
WellFormed(body) ==
    /\ body.wire = "ToFunction"
    /\ FunctionType_new(body.to_function.target.namespace,
                        body.to_function.target.type) \in DOMAIN functions
    /\ \A i \in 1..Len(body.to_function.invocations) :
          is(body.to_function.invocations[i].argument, String)

\* C38: a request that fails (undecodable body, FunctionNotFound, or a
\* handler that panics during the invocation) leaves the worker able to
\* serve later requests: every well-formed request for a registered function
\* receives its normal response, whatever failed before it.
C38_ServesAfterFailure ==
    \A r \in RequestIds :
        (AnsweredRequest(r) /\ WellFormed(in_flight[r].body)) =>
            /\ in_flight[r].answer.kind = "Ok"
            /\ in_flight[r].answer = Alone(in_flight[r].body)
====
